---- MODULE Spec2Model ----
(***************************************************************************)
(* Model of plejd_mqtt_ha.bt_client.BTClient: the BLE mesh session, its    *)
(* connection attempts, the keep-alive task, command sends, ping and the   *)
(* notification dispatch.  The event loop is cooperative: every action is  *)
(* the code that runs between two suspension points (await) of one task.   *)
(***************************************************************************)
EXTENDS Integers, Sequences, FiniteSets, TLC

\* ------------------------------------------------------------------ bounds
\* keep-alive tasks that may exist at the same time
MaxKA == 1
\* BleakClient objects created over a run
MaxClients == 2
\* settings.ble.retries, the configured retry limit N
Retries == 2

\* ------------------------------------------------------------ program data
\* task 0 is the caller (plejd.py); tasks 1..MaxKA run _stay_connected_loop
KA == 1..MaxKA
Tasks == 0..MaxKA
Clients == 1..MaxClients

\* the specification of the racing session lets one more keep-alive task
\* and one more BleakClient exist than the session's specification does
RaceKA == MaxKA + 1
RaceClients == MaxClients + 1
AllKA == 1..RaceKA
AllTasks == 0..RaceKA
AllClients == 1..RaceClients
ByteCount == 256
Byte == 0..(ByteCount - 1)

BLE_CMD_DIM_CHANGE == 200
BLE_CMD_DIM2_CHANGE == 152
BLE_CMD_STATE_CHANGE == 151
BLE_CMD_SCENE_TRIG == 33
BLE_CMD_TIME_UPDATE == 27
BLE_CMD_REMOTE_CLICK == 22

PlejdCommand ==
  { BLE_CMD_DIM_CHANGE, BLE_CMD_DIM2_CHANGE, BLE_CMD_STATE_CHANGE,
    BLE_CMD_SCENE_TRIG, BLE_CMD_TIME_UPDATE, BLE_CMD_REMOTE_CLICK }

\* command ids a caller passes to send_command: the six recognized ones and
\* some that constants.PlejdCommand(command) rejects
CommandInputs == PlejdCommand \cup {-1, 0, 153}

VARIABLES
  _client,      \* self._client: 0 is None, else the BleakClient object
  nclients,     \* BleakClient objects created so far
  linkUp,       \* linkUp[c]: BleakClient c .is_connected
  authed,       \* authed[c]: the challenge-response completed on link c
  _disconnect,  \* self._disconnect
  pc,           \* pc[t]: the suspension point task t waits at
  retries,      \* retries[t]: the local of heartbeat()
  opc,          \* opc[t]: the client on which task t's transport call runs
  sent,         \* sent[t]: ping_data[0] of task t's ping in progress
  stay,         \* stay_connected of the caller's connect in progress
  okRun,        \* okRun[t]: a ping succeeded since the first counted failure
                \* of the running inner loop of heartbeat (observation)
  userDisc,     \* disconnect() was called and connect() not since (observation)
  peer,         \* peer[c]: the device BleakClient c was created for (0: none)
  discovered,   \* discovered[t]: discovered_devices_and_advertisement_data
                \* of the scanner of task t's _connect, in dict order
  _callbacks,   \* self._callbacks: mesh address -> callback
  handler,      \* handler[c]: a _proxy_callback is registered with client c
                \* for LAST_DATA_UUID
  installs,     \* installs[c]: start_notify calls that succeeded on client c
  plejd_site,   \* plejd_site of _run: loaded is false until the site is
                \* there, devices the categories of its devices, in order
  create,       \* the loop of _create_devices: i the index of the device it
                \* is at, res "none", "running", "returned" or what it raised
  combined_devices,  \* the list combined_devices of _create_devices
  _mqtt_entities,    \* _mqtt_entities[d]: combined device d holds its list
                     \* of MQTT entities (false: None)
  _bt_device,        \* _bt_device[d]: combined device d holds a BT device
  update_time_task,  \* the task of _update_plejd_time: "none", "running"
                     \* or the error that ended it
  sync,              \* its locals: i the index of the device its loop is
                     \* at (0: it sleeps), now current_sys_time
  cache_file,        \* the cache file: present, and the site stored in it
  load,              \* _load_plejd_site: pc "start", "retry" (in its retry
                     \* loop), "loaded", "exit" (_run returned) or "raised";
                     \* retry_count its local, policy the cache policy of
                     \* the settings, res what ended it
  mqtt_state,        \* mqtt_state[d]: the state last published by the MQTT
                     \* entity of combined device d, as the call that
                     \* published it
  scheduled,         \* the coroutines handed to the event loop by
                     \* run_coroutine_threadsafe and not yet run
  health_files,      \* the files of the health check directory: heartbeat
                     \* (the time written, -1: no file), bt and mqtt (the
                     \* status written, "absent": no file)
  clock,             \* time.time(), in seconds
  heartbeat_task,    \* the task of write_health_data: "none" until _run
                     \* creates it, the health_check setting it runs
                     \* under, and the time its sleep ends
  ev            \* what the last step did: the call, its result, its I/O

vars == << _client, nclients, linkUp, authed, _disconnect, pc, retries, opc,
           sent, stay, okRun, userDisc, peer, discovered, _callbacks, handler,
           installs, plejd_site, create, combined_devices, _mqtt_entities,
           _bt_device, update_time_task, sync, cache_file, load, mqtt_state,
           scheduled, health_files, clock, heartbeat_task,
           ev >>

session == << _client, nclients, linkUp, authed, _disconnect, peer, discovered >>
notif == << _callbacks, handler, installs >>
\* the state of the program around the session: the site and its devices,
\* and the background tasks of _run
site == << plejd_site, create, combined_devices, _mqtt_entities, _bt_device >>
tasks == << update_time_task, sync >>
loading == << cache_file, load >>
mqtt == << mqtt_state, scheduled >>
health == << health_files, clock, heartbeat_task >>
app == << site, tasks, loading, mqtt, health >>

\* ---------------------------------------------------------------- helpers
is_connected == _client # 0 /\ linkUp[_client]

\* is_connected() evaluated after the link table became lu
is_connected_in(lu) == _client # 0 /\ lu[_client]

\* outcomes of one GATT write/read awaited on client c
IoOutcomes(c) ==
  IF linkUp[c] THEN {"ok", "BleakError", "TimeoutError"} ELSE {"BleakError"}

\* _write_request/_read_request translate the transport's errors
PlejdError(o) ==
  CASE o = "ok" -> "None"
    [] o = "BleakError" -> "PlejdBluetoothError"
    [] o = "TimeoutError" -> "PlejdTimeoutError"

RECURSIVE BitAnd(_, _)
BitAnd(a, b) ==
  IF a = 0 \/ b = 0 THEN 0
  ELSE (IF a % 2 = 1 /\ b % 2 = 1 THEN 1 ELSE 0) + 2 * BitAnd(a \div 2, b \div 2)

RECURSIVE BitXor(_, _)
BitXor(a, b) ==
  IF a = 0 THEN b
  ELSE IF b = 0 THEN a
  ELSE ((a + b) % 2) + 2 * BitXor(a \div 2, b \div 2)

Reverse(q) == [i \in 1..Len(q) |-> q[Len(q) + 1 - i]]

\* self._crypto_key, 16 bytes fixed at construction (lines 99-102)
Key == << 222, 173, 190, 239, 1, 2, 3, 4, 5, 6, 7, 8, 9, 10, 11, 12 >>

\* BleakClient.address of a client created for peer p, as the bytes of the
\* string "0p:11:22:33:44:55"
PeerAddress(p) == << p, 17, 34, 51, 68, 85 >>

\* _encode_address, lines 547-549: the address bytes, reversed
_encode_address(addr) == Reverse(addr)

\* one AES block encryption in ECB mode (lines 535-539): the library's
\* cipher is kept abstract, as a fixed function of the key and the block
AES_ECB(key, buf) ==
  [i \in 1..16 |-> (31 * key[i] + 17 * buf[i] + buf[((5 * i) % 16) + 1] + i) % 256]

\* a transform that stops at the end of the 16-byte keystream
_encrypt_decrypt_data_OneBlock(key, addr, data) ==
  LET buf == addr \o addr \o SubSeq(addr, 1, 4)
      cipher == AES_ECB(key, buf)
      n == IF Len(data) < 16 THEN Len(data) ELSE 16
  IN [i \in 1..n |-> BitXor(data[i], cipher[i])]

\* _encrypt_decrypt_data, lines 528-545
_encrypt_decrypt_data(key, addr, data) ==
  LET buf == addr \o addr \o SubSeq(addr, 1, 4)
      cipher == AES_ECB(key, buf)
  IN [i \in 1..Len(data) |-> BitXor(data[i], cipher[((i - 1) % 16) + 1])]

NoEv == [op |-> "step"]

\* devices a site may hold
MaxDevices == 2
DeviceIds == 1..MaxDevices

\* the program before _run has loaded a site and created a device
InitApp ==
  /\ plejd_site = [loaded |-> FALSE, devices |-> << >>]
  /\ create = [i |-> 0, res |-> "none"]
  /\ combined_devices = << >>
  /\ _mqtt_entities = [d \in DeviceIds |-> FALSE]
  /\ _bt_device = [d \in DeviceIds |-> FALSE]
  /\ update_time_task = "none"
  /\ sync = [i |-> 0, now |-> 0]
  /\ cache_file = [present |-> FALSE, devices |-> << >>]
  /\ load = [pc |-> "start", retry_count |-> 0, policy |-> "FIRST_CACHE",
             res |-> "None"]
  /\ mqtt_state = [d \in DeviceIds |-> [call |-> "none", arg |-> 0]]
  /\ scheduled = << >>
  /\ health_files = [heartbeat |-> -1, bt |-> "absent", mqtt |-> "absent"]
  /\ clock = 0
  /\ heartbeat_task = [state |-> "none", health_check |-> TRUE, wake |-> 0]

Init ==
  /\ _client = 0
  /\ nclients = 0
  /\ linkUp = [c \in AllClients |-> FALSE]
  /\ authed = [c \in AllClients |-> FALSE]
  /\ _disconnect = FALSE
  /\ pc = [t \in AllTasks |-> IF t = 0 THEN "idle" ELSE "none"]
  /\ retries = [t \in AllTasks |-> 0]
  /\ opc = [t \in AllTasks |-> 0]
  /\ sent = [t \in AllTasks |-> 0]
  /\ stay = FALSE
  /\ okRun = [t \in AllTasks |-> FALSE]
  /\ userDisc = FALSE
  /\ peer = [c \in AllClients |-> 0]
  /\ discovered = [t \in AllTasks |-> << >>]
  /\ _callbacks = [a \in {} |-> 0]
  /\ handler = [c \in AllClients |-> FALSE]
  /\ installs = [c \in AllClients |-> 0]
  /\ InitApp
  /\ ev = NoEv

\* ------------------------------------------------------- heartbeat (loop)
\* heartbeat(), lines 106-122, after an attempt: n is retries after it, okr
\* the observation okRun, dis self._disconnect.  No await lies between the
\* end of the attempt and the next asyncio.sleep, so this is one step.
\* a heartbeat whose loop ends when the limit is reached
HeartbeatNext_EndsAtLimit(n, okr, dis) ==
  IF n < Retries
    THEN [pc |-> "sleep", retries |-> n, okRun |-> okr, log |-> "none",
          exit |-> FALSE]
    ELSE [pc |-> "none", retries |-> 0, okRun |-> FALSE,
          log |-> "Hearbeat timeout", exit |-> TRUE]

HeartbeatNext(n, okr, dis) ==
  IF n < Retries
    THEN [pc |-> "sleep", retries |-> n, okRun |-> okr, log |-> "none",
          exit |-> FALSE]
    ELSE [pc |-> IF dis THEN "none" ELSE "sleep", retries |-> 0,
          okRun |-> FALSE, log |-> "Hearbeat timeout", exit |-> dis]

\* the keep-alive task t ends an attempt ("connect" or "ping"); counted: the
\* attempt did retries += 1; ok: a ping returned True
KaAttemptDone(t, kind, counted, ok) ==
  LET n == IF counted THEN retries[t] + 1 ELSE retries[t]
      okr == okRun[t] \/ (ok /\ retries[t] > 0)
      h == HeartbeatNext(n, okr, _disconnect)
  IN /\ pc' = [pc EXCEPT ![t] = h.pc]
     /\ retries' = [retries EXCEPT ![t] = h.retries]
     /\ okRun' = [okRun EXCEPT ![t] = h.okRun]
     /\ stay' = stay
     /\ ev' = [op |-> "heartbeat", t |-> t, attempt |-> kind,
               counted |-> counted, ok |-> ok, n |-> n, okBetween |-> okr,
               log |-> h.log, exit |-> h.exit]

\* an exception leaves heartbeat(): the task ends
KaRaised(t, kind) ==
  /\ pc' = [pc EXCEPT ![t] = "none"]
  /\ retries' = [retries EXCEPT ![t] = 0]
  /\ okRun' = [okRun EXCEPT ![t] = FALSE]
  /\ stay' = stay
  /\ ev' = [op |-> "task_exception", t |-> t, attempt |-> kind]

\* ------------------------------------------------------------- connect()
\* the task object create_task makes: the first slot not in use
FreeSlot ==
  CHOOSE k \in AllKA : pc[k] = "none" /\ \A j \in AllKA : pc[j] = "none" => k <= j

\* connect(), lines 140-149: connected is is_connected() on entry, r the
\* result of the _connect attempt ("True", "False" or "raise")
\* a connect that ignores the result of its attempt
connect_return_IgnoresAttempt(connected, r) ==
  IF r = "raise" /\ ~connected THEN "raise" ELSE "True"

connect_return(connected, r) ==
  IF ~connected
    THEN (IF r = "raise" THEN "raise" ELSE IF r # "True" THEN "False" ELSE "True")
    ELSE "True"

\* lines 144-149: the result is true; schedule the keep-alive task if asked
ConnectReturn(connected, r, stayConnected) ==
  LET res == connect_return(connected, r)
  IN /\ pc' = IF res = "True" /\ stayConnected
                THEN [pc EXCEPT ![0] = "idle", ![FreeSlot] = "start"]
                ELSE [pc EXCEPT ![0] = "idle"]
     /\ stay' = FALSE
     /\ UNCHANGED << retries, okRun >>
     /\ ev' = [op |-> "connect", res |-> res, entry |-> connected,
               attempts |-> IF connected THEN 0 ELSE 1, attempt |-> r,
               task |-> res = "True" /\ stayConnected]

\* the _connect attempt of task t returns r
ConnectDone(t, r) ==
  IF t = 0 THEN ConnectReturn(FALSE, r, stay)
  ELSE IF r = "raise" THEN KaRaised(t, "connect")
  ELSE KaAttemptDone(t, "connect", TRUE, FALSE)

\* _connect, lines 383-388: clears the flag and starts a new scanner
BeginConnect(t) ==
  /\ _disconnect' = FALSE
  /\ pc' = [pc EXCEPT ![t] = "scan"]
  /\ discovered' = [discovered EXCEPT ![t] = << >>]
  /\ UNCHANGED << _client, nclients, linkUp, authed, peer, retries, opc, sent,
                  okRun, notif >>
  /\ ev' = IF t = 0 THEN [op |-> "connect_call"] ELSE NoEv

\* connect(stay_connected), lines 139-149, up to its first await
ConnectCall(stayConnected) ==
  /\ pc[0] = "idle"
  /\ userDisc' = FALSE
  /\ UNCHANGED app
  /\ IF is_connected
       THEN /\ ConnectReturn(TRUE, "none", stayConnected)
            /\ UNCHANGED << session, opc, sent, notif >>
       ELSE /\ BeginConnect(0)
            /\ stay' = stayConnected

\* connect called where a keep-alive task can still be created among ka
ConnectWithin(stayConnected, ka) ==
  /\ stayConnected => \E k \in ka : pc[k] = "none"
  /\ ConnectCall(stayConnected)

Connect(stayConnected) == ConnectWithin(stayConnected, KA)

ScanOutcomes == {"error", "empty", "found"}

\* _connect, lines 424-425: a BleakClient is created for the device p,
\* stored in self._client, and its connect() is awaited
OpenClient(t, p, limit) ==
  /\ nclients < limit
  /\ nclients' = nclients + 1
  /\ _client' = nclients + 1
  /\ peer' = [peer EXCEPT ![nclients + 1] = p]
  /\ opc' = [opc EXCEPT ![t] = nclients + 1]
  /\ pc' = [pc EXCEPT ![t] = "open"]
  /\ ev' = NoEv
  /\ UNCHANGED << linkUp, authed, _disconnect, retries, sent, stay, okRun,
                  userDisc, app >>

\* _connect, lines 388-425: the scan ends; with a peer found the attempt
\* creates a BleakClient, stores it in self._client and awaits its connect()
ScanDoneWithin(t, peers, limit) ==
  /\ pc[t] = "scan"
  /\ UNCHANGED << notif, discovered >>
  /\ \E o \in ScanOutcomes :
       IF o = "found"
         THEN \E p \in peers : OpenClient(t, p, limit)
         ELSE /\ ConnectDone(t, "False")
              /\ UNCHANGED << session, opc, sent, userDisc, app >>

ScanDone(t, peers) == ScanDoneWithin(t, peers, MaxClients)

OpenOutcomes == {"True", "False", "BleakError", "TimeoutError"}

\* one awaited GATT call of _auth_challenge_response is started by task t
\* after the link table became lu: _write_request/_read_request first check
\* is_connected() (lines 464, 496) and raise PlejdNotConnectedError, which
\* _auth_challenge_response turns into False (lines 441-443, 457-459)
AuthCall(t, lu, next) ==
  IF is_connected_in(lu)
    THEN /\ pc' = [pc EXCEPT ![t] = next]
         /\ opc' = [opc EXCEPT ![t] = _client]
         /\ ev' = NoEv
         /\ UNCHANGED << retries, stay, okRun >>
    ELSE /\ ConnectDone(t, "False")
         /\ opc' = [opc EXCEPT ![t] = 0]

\* _connect, lines 425-430: BleakClient.connect() returns or raises
OpenDone(t) ==
  /\ pc[t] = "open"
  /\ UNCHANGED << _client, nclients, _disconnect, peer, discovered, sent,
                  userDisc, app, notif >>
  /\ \E o \in OpenOutcomes :
       CASE o = "True" ->
              /\ linkUp' = [linkUp EXCEPT ![opc[t]] = TRUE]
              /\ authed' = authed
              /\ AuthCall(t, linkUp', "auth_w1")
         [] o = "False" ->
              /\ UNCHANGED << linkUp, authed >>
              /\ opc' = [opc EXCEPT ![t] = 0]
              /\ ConnectDone(t, "False")
         [] OTHER ->
              /\ UNCHANGED << linkUp, authed >>
              /\ opc' = [opc EXCEPT ![t] = 0]
              /\ ConnectDone(t, "raise")

\* _auth_challenge_response, lines 440-447: the write of the challenge
\* request ends; on success the read of the challenge starts
AuthWriteDone(t) ==
  /\ pc[t] = "auth_w1"
  /\ UNCHANGED << session, sent, userDisc, app, notif >>
  /\ \E o \in IoOutcomes(opc[t]) :
       IF o = "ok" THEN AuthCall(t, linkUp, "auth_r")
       ELSE /\ ConnectDone(t, "False")
            /\ opc' = [opc EXCEPT ![t] = 0]

\* lines 447-456: the challenge is read; the response is computed and written
AuthReadDone(t) ==
  /\ pc[t] = "auth_r"
  /\ UNCHANGED << session, sent, userDisc, app, notif >>
  /\ \E o \in IoOutcomes(opc[t]) :
       IF o = "ok" THEN AuthCall(t, linkUp, "auth_w2")
       ELSE /\ ConnectDone(t, "False")
            /\ opc' = [opc EXCEPT ![t] = 0]

\* lines 456-461 and 430-434: the response write ends; on success the peer
\* holds the link authenticated and _connect returns True
AuthResponseDone(t) ==
  /\ pc[t] = "auth_w2"
  /\ UNCHANGED << _client, nclients, linkUp, _disconnect, peer, discovered,
                  sent, userDisc, app, notif >>
  /\ opc' = [opc EXCEPT ![t] = 0]
  /\ \E o \in IoOutcomes(opc[t]) :
       IF o = "ok"
         THEN /\ authed' = [authed EXCEPT ![opc[t]] = TRUE]
              /\ ConnectDone(t, "True")
         ELSE /\ authed' = authed
              /\ ConnectDone(t, "False")

\* ------------------------------------------------------------------ ping()
\* ping(), lines 266-276: wr and rd are what _write_request and
\* _read_request raised ("None": nothing; rd is "skipped" after a failed
\* write), pong the value read
\* a ping that compares without the mask 0xFF
ping_NoMask(wr, rd, sentByte, pong) ==
  IF wr # "None" \/ rd # "None" THEN "False"
  ELSE IF pong = << >> \/ ~(sentByte + 1 = pong[1]) THEN "False"
  ELSE "True"

ping(wr, rd, sentByte, pong) ==
  IF wr # "None" \/ rd # "None" THEN "False"
  ELSE IF pong = << >> \/ ~(BitAnd(sentByte + 1, 255) = pong[1]) THEN "False"
  ELSE "True"

\* ping() of task t returns
PingDone(t, sentByte, wr, rd, pong) ==
  LET res == ping(wr, rd, sentByte, pong)
  IN /\ sent' = [sent EXCEPT ![t] = 0]
     /\ opc' = [opc EXCEPT ![t] = 0]
     /\ IF t = 0
          THEN /\ pc' = [pc EXCEPT ![0] = "idle"]
               /\ UNCHANGED << retries, okRun, stay >>
               /\ ev' = [op |-> "ping", res |-> res, sent |-> sentByte,
                         pong |-> pong, wr |-> wr, rd |-> rd]
          ELSE KaAttemptDone(t, "ping", res = "False", res = "True")

\* ping(), lines 264-267: draws the byte and calls _write_request, which
\* raises PlejdNotConnectedError when not connected (line 464) and starts
\* the write otherwise
PingStart(t, bytes) ==
  /\ UNCHANGED << session, userDisc, app, notif >>
  /\ \E b \in bytes :
       IF is_connected
         THEN /\ sent' = [sent EXCEPT ![t] = b]
              /\ opc' = [opc EXCEPT ![t] = _client]
              /\ pc' = [pc EXCEPT ![t] = "ping_w"]
              /\ ev' = NoEv
              /\ UNCHANGED << retries, stay, okRun >>
         ELSE PingDone(t, b, "PlejdNotConnectedError", "skipped", << >>)

\* lines 267-268: the write ends; on success _read_request checks
\* is_connected() and starts the read
PingWriteDone(t) ==
  /\ pc[t] = "ping_w"
  /\ UNCHANGED << session, userDisc, app, notif >>
  /\ \E o \in IoOutcomes(opc[t]) :
       IF o # "ok" THEN PingDone(t, sent[t], PlejdError(o), "skipped", << >>)
       ELSE IF ~is_connected
         THEN PingDone(t, sent[t], "None", "PlejdNotConnectedError", << >>)
       ELSE /\ pc' = [pc EXCEPT ![t] = "ping_r"]
            /\ opc' = [opc EXCEPT ![t] = _client]
            /\ ev' = NoEv
            /\ UNCHANGED << sent, retries, stay, okRun >>

\* lines 268-276: the read ends with an error or with a value among pongs
PingReadDone(t, pongs) ==
  /\ pc[t] = "ping_r"
  /\ UNCHANGED << session, userDisc, app, notif >>
  /\ \E o \in IoOutcomes(opc[t]) :
       IF o # "ok" THEN PingDone(t, sent[t], "None", PlejdError(o), << >>)
       ELSE \E pong \in pongs : PingDone(t, sent[t], "None", "None", pong)

\* the bytes and the values read that the session's specification draws
PingBytes == {255}
Pongs == { << >>, <<0>> }

\* a caller's ping()
CallPing(bytes) ==
  /\ pc[0] = "idle"
  /\ PingStart(0, bytes)

\* ------------------------------------------------- _stay_connected_loop
\* the task created by connect() starts: heartbeat(), lines 106-107
KaStart(t) ==
  /\ pc[t] = "start"
  /\ pc' = [pc EXCEPT ![t] = IF _disconnect THEN "none" ELSE "sleep"]
  /\ ev' = [op |-> "heartbeat_start", t |-> t, exit |-> _disconnect]
  /\ UNCHANGED << session, retries, opc, sent, stay, okRun, userDisc, app, notif >>

\* lines 110-117: asyncio.sleep ends; not connected: _connect is called,
\* connected: ping is called
KaWake(t) ==
  /\ pc[t] = "sleep"
  /\ IF ~is_connected
       THEN /\ BeginConnect(t)
            /\ UNCHANGED << stay, userDisc, app >>
       ELSE PingStart(t, PingBytes)

\* ------------------------------------------------------------ disconnect()
\* lines 159-163; the transport's disconnect() answers True (the link is
\* closed, and with it the notifications registered on it) or False (it is
\* not)
\* a disconnect that answers True whatever the transport answers
disconnect_AlwaysTrue(client, connected, r) ==
  IF client # 0 /\ connected
    THEN [res |-> "True", io |-> << "disconnect" >>]
    ELSE [res |-> "True", io |-> << >>]

\* disconnect(), lines 160-163: the result and the transport calls made,
\* r being what the transport's disconnect() answers
disconnect(client, connected, r) ==
  IF client # 0 /\ connected
    THEN [res |-> r, io |-> << "disconnect" >>]
    ELSE [res |-> "True", io |-> << >>]

Disconnect ==
  /\ pc[0] = "idle"
  /\ _disconnect' = TRUE
  /\ userDisc' = TRUE
  /\ UNCHANGED app
  /\ UNCHANGED << _client, nclients, peer, discovered, pc, retries, opc, sent,
                  stay, okRun, _callbacks, installs >>
  /\ IF _client # 0 /\ is_connected
       THEN \E r \in {"True", "False"} :
              /\ linkUp' = IF r = "True" THEN [linkUp EXCEPT ![_client] = FALSE]
                           ELSE linkUp
              /\ authed' = IF r = "True" THEN [authed EXCEPT ![_client] = FALSE]
                           ELSE authed
              /\ handler' = IF r = "True" THEN [handler EXCEPT ![_client] = FALSE]
                            ELSE handler
              /\ ev' = [op |-> "disconnect", transport |-> r,
                        res |-> disconnect(_client, is_connected, r).res,
                        io |-> disconnect(_client, is_connected, r).io]
       ELSE /\ UNCHANGED << linkUp, authed, handler >>
            /\ ev' = [op |-> "disconnect", transport |-> "none",
                      res |-> disconnect(_client, is_connected, "none").res,
                      io |-> disconnect(_client, is_connected, "none").io]

\* ---------------------------------------------------------- send_command()
\* lines 195-215: the result (None or the error raised) and the GATT calls
\* made, for a command id cmd and the outcome o of the write
\* a send_command that validates the command id before the connection
send_command_IdFirst(connected, cmd, o) ==
  IF cmd \notin PlejdCommand
    THEN [res |-> "UnsupportedCommandError", io |-> << >>]
  ELSE IF ~connected
    THEN [res |-> "PlejdNotConnectedError", io |-> << >>]
  ELSE [res |-> PlejdError(o), io |-> << [rw |-> "write", ch |-> "DATA_UUID"] >>]

send_command(connected, cmd, o) ==
  IF ~connected
    THEN [res |-> "PlejdNotConnectedError", io |-> << >>]
  ELSE IF cmd \notin PlejdCommand
    THEN [res |-> "UnsupportedCommandError", io |-> << >>]
  ELSE [res |-> PlejdError(o), io |-> << [rw |-> "write", ch |-> "DATA_UUID"] >>]

SendCommand(cmds) ==
  /\ \E cmd \in cmds :
       \E o \in (IF is_connected THEN IoOutcomes(_client) ELSE {"ok"}) :
         LET r == send_command(is_connected, cmd, o)
         IN ev' = [op |-> "send_command", cmd |-> cmd, wr |-> o,
                   res |-> r.res, io |-> r.io]
  /\ UNCHANGED << session, pc, retries, opc, sent, stay, okRun, userDisc, app, notif >>

\* ------------------------------------------------------------ environment
\* the radio link of client c drops; the transport forgets the
\* notifications registered on it
LinkLost(c) ==
  /\ linkUp[c]
  /\ linkUp' = [linkUp EXCEPT ![c] = FALSE]
  /\ authed' = [authed EXCEPT ![c] = FALSE]
  /\ handler' = [handler EXCEPT ![c] = FALSE]
  /\ ev' = NoEv
  /\ UNCHANGED << _client, nclients, _disconnect, peer, discovered, pc, retries,
                  opc, sent, stay, okRun, userDisc, app, _callbacks, installs >>

\* the command ids and the peer devices the session's specification draws
SessionCommands == {BLE_CMD_STATE_CHANGE}
SessionPeers == {1}

Next ==
  \/ \E b \in BOOLEAN : Connect(b)
  \/ Disconnect
  \/ SendCommand(SessionCommands)
  \/ \E t \in Tasks : ScanDone(t, SessionPeers)
  \/ \E t \in Tasks : OpenDone(t)
  \/ \E t \in Tasks : AuthWriteDone(t)
  \/ \E t \in Tasks : AuthReadDone(t)
  \/ \E t \in Tasks : AuthResponseDone(t)
  \/ \E t \in KA : PingWriteDone(t)
  \/ \E t \in KA : PingReadDone(t, Pongs)
  \/ \E t \in KA : KaStart(t)
  \/ \E t \in KA : KaWake(t)
  \/ \E c \in Clients : LinkLost(c)

Spec == Init /\ [][Next]_vars

\* ------------------------------------------------- subscribe_last_data()
\* start_notify calls a run may make on one client
MaxInstalls == 2

\* the handler of lines 236-250 run on the bytes data: what it raised, the
\* decrypted frame and the callbacks it invoked, in order, with their
\* argument
\* a handler that looks the sender up in the bytes as received
_proxy_callback_RawSender(data) ==
  IF _client = 0 THEN [res |-> "None", dec |-> << >>, invoked |-> << >>]
  ELSE
    LET encoded_address == _encode_address(PeerAddress(peer[_client]))
        decrypted_data == _encrypt_decrypt_data(Key, encoded_address, data)
    IN IF Len(data) = 0
         THEN [res |-> "IndexError", dec |-> decrypted_data, invoked |-> << >>]
       ELSE IF data[1] \notin DOMAIN _callbacks
         THEN [res |-> "None", dec |-> decrypted_data, invoked |-> << >>]
       ELSE [res |-> "None", dec |-> decrypted_data,
             invoked |-> << [cb |-> _callbacks[data[1]],
                             arg |-> decrypted_data] >>]

\* a handler that only schedules the callback instead of calling it
_proxy_callback_Deferred(data) ==
  IF _client = 0 THEN [res |-> "None", dec |-> << >>, invoked |-> << >>]
  ELSE
    LET encoded_address == _encode_address(PeerAddress(peer[_client]))
        decrypted_data == _encrypt_decrypt_data(Key, encoded_address, data)
    IN IF Len(decrypted_data) = 0
         THEN [res |-> "IndexError", dec |-> decrypted_data, invoked |-> << >>]
       ELSE [res |-> "None", dec |-> decrypted_data, invoked |-> << >>]

_proxy_callback(data) ==
  IF _client = 0 THEN [res |-> "None", dec |-> << >>, invoked |-> << >>]
  ELSE
    LET encoded_address == _encode_address(PeerAddress(peer[_client]))
        decrypted_data == _encrypt_decrypt_data(Key, encoded_address, data)
    IN IF Len(decrypted_data) = 0
         THEN [res |-> "IndexError", dec |-> decrypted_data, invoked |-> << >>]
       ELSE IF decrypted_data[1] \notin DOMAIN _callbacks
         THEN [res |-> "None", dec |-> decrypted_data, invoked |-> << >>]
       ELSE [res |-> "None", dec |-> decrypted_data,
             invoked |-> << [cb |-> _callbacks[decrypted_data[1]],
                             arg |-> decrypted_data] >>]

\* a registry that keeps the callback an address already has
callbacks_update_KeepFirst(cbs, a, cb) ==
  [x \in DOMAIN cbs \cup {a} |-> IF x \in DOMAIN cbs THEN cbs[x] ELSE cb]

\* line 234, self._callbacks.update({ble_address: callback})
callbacks_update(cbs, a, cb) ==
  [x \in DOMAIN cbs \cup {a} |-> IF x = a THEN cb ELSE cbs[x]]

\* a subscribe that records the callback before it checks the connection
subscribe_last_data_UpdateFirst(connected, cbs, a, cb, o) ==
  IF ~connected
    THEN [res |-> "PlejdNotConnectedError", callbacks |-> callbacks_update(cbs, a, cb),
          io |-> << >>, installed |-> FALSE]
  ELSE [res |-> IF o = "ok" THEN "None" ELSE o,
        callbacks |-> callbacks_update(cbs, a, cb),
        io |-> << [rw |-> "start_notify", ch |-> "LAST_DATA_UUID"] >>,
        installed |-> o = "ok"]

\* subscribe_last_data(ble_address, callback), lines 229-254, on the
\* registry cbs, with o the outcome of start_notify: what it raises, the
\* registry it leaves, the transport calls it makes and whether a handler
\* was installed
subscribe_last_data(connected, cbs, a, cb, o) ==
  IF ~connected
    THEN [res |-> "PlejdNotConnectedError", callbacks |-> cbs, io |-> << >>,
          installed |-> FALSE]
  ELSE [res |-> IF o = "ok" THEN "None" ELSE o,
        callbacks |-> callbacks_update(cbs, a, cb),
        io |-> << [rw |-> "start_notify", ch |-> "LAST_DATA_UUID"] >>,
        installed |-> o = "ok"]

\* a call of subscribe_last_data; start_notify registers the handler for
\* the characteristic of the client, in place of the one registered
\* before, or raises
SubscribeLastData(addrs, cbs) ==
  /\ UNCHANGED << session, pc, retries, opc, sent, stay, okRun, userDisc, app >>
  /\ is_connected => installs[_client] < MaxInstalls
  /\ \E a \in addrs, cb \in cbs :
       \E o \in (IF is_connected THEN {"ok", "BleakError"} ELSE {"ok"}) :
         LET r == subscribe_last_data(is_connected, _callbacks, a, cb, o)
         IN /\ _callbacks' = r.callbacks
            /\ handler' = IF r.installed THEN [handler EXCEPT ![_client] = TRUE]
                          ELSE handler
            /\ installs' = IF r.installed THEN [installs EXCEPT ![_client] = @ + 1]
                           ELSE installs
            /\ ev' = [op |-> "subscribe", addr |-> a, cb |-> cb,
                      prev |-> IF a \in DOMAIN _callbacks THEN _callbacks[a] ELSE 0,
                      res |-> r.res, io |-> r.io]

\* frames a mesh device sends: empty, and state changes from the mesh
\* addresses 1 and 2
NotifyFrames == { << >>, <<1, 1, 16, 0, 151, 1>>, <<2, 1, 16, 0, 151, 0>> }

\* the peer of link c notifies LAST_DATA_UUID: it sends a frame encrypted
\* under its own address, and the transport runs the registered handler
Notification(c) ==
  /\ linkUp[c] /\ handler[c]
  /\ \E plain \in NotifyFrames :
       LET data == _encrypt_decrypt_data(Key, _encode_address(PeerAddress(peer[c])), plain)
           h == _proxy_callback(data)
       IN ev' = [op |-> "notification", c |-> c, plain |-> plain, data |-> data,
                 res |-> h.res, dec |-> h.dec, invoked |-> h.invoked]
  /\ UNCHANGED << session, pc, retries, opc, sent, stay, okRun, userDisc, app, notif >>

SubscribeAddrs == {1, 2}
CallbackIds == {1, 2}
NotifyPeers == {1, 2}

NextNotify ==
  \/ Connect(FALSE)
  \/ ScanDone(0, NotifyPeers)
  \/ OpenDone(0)
  \/ AuthWriteDone(0)
  \/ AuthReadDone(0)
  \/ AuthResponseDone(0)
  \/ SubscribeLastData(SubscribeAddrs, CallbackIds)
  \/ \E c \in Clients : Notification(c)
  \/ \E c \in Clients : LinkLost(c)

NotifySpec == Init /\ [][NextNotify]_vars

\* ----------------------------------------------- the caller's commands
\* a caller that connects without keep-alive and sends every command id
NextCommand ==
  \/ Connect(FALSE)
  \/ Disconnect
  \/ SendCommand(CommandInputs)
  \/ ScanDone(0, SessionPeers)
  \/ OpenDone(0)
  \/ AuthWriteDone(0)
  \/ AuthReadDone(0)
  \/ AuthResponseDone(0)
  \/ \E c \in Clients : LinkLost(c)

CommandSpec == Init /\ [][NextCommand]_vars

\* ------------------------------------------------------ frames and cipher
BLE_REQUEST_NO_RESPONSE == 272
BLE_REQUEST_RESPONSE == 258

\* Python's q[a:b] on a byte string (0-based, end exclusive, clipped)
Slice(q, a, b) == SubSeq(q, a + 1, IF b < Len(q) THEN b ELSE Len(q))

\* int.from_bytes(q, "big")
RECURSIVE from_bytes_big(_)
from_bytes_big(q) ==
  IF Len(q) = 0 THEN 0
  ELSE ByteCount * from_bytes_big(SubSeq(q, 1, Len(q) - 1)) + q[Len(q)]

\* bytearray.fromhex(hex_str), the string given as its hex digits
fromhex(h) == [i \in 1..(Len(h) \div 2) |-> 16 * h[2 * i - 1] + h[2 * i]]

\* a frame builder that packs the header little-endian
_get_cmd_payload_LittleEndian(ble_address, command, hex_str, response_type) ==
  << ble_address % ByteCount,
     response_type % ByteCount, (response_type \div ByteCount) % ByteCount,
     command % ByteCount, (command \div ByteCount) % ByteCount >>
  \o fromhex(hex_str)

\* _get_cmd_payload, lines 551-569: struct ">BHH" of the address as uint8
\* and the response type and command as ushort, then the payload bytes
_get_cmd_payload(ble_address, command, hex_str, response_type) ==
  << ble_address % ByteCount,
     (response_type \div ByteCount) % ByteCount, response_type % ByteCount,
     (command \div ByteCount) % ByteCount, command % ByteCount >>
  \o fromhex(hex_str)

\* what the decoders read back: the sender (bt_client.py, line 243) and the
\* command id (bt_device.py, line 299)
decode_sender(frame) == frame[1]
decode_command(frame) == from_bytes_big(Slice(frame, 3, 5))

\* longest byte sequence enumerated in full
MaxLen == 3

SeqsUpTo(S, n) == UNION { [1..k -> S] : k \in 0..n }

CodecKeys == { Key, [i \in 1..16 |-> 0], [i \in 1..16 |-> (17 * i) % ByteCount] }
CodecAddrs == { _encode_address(PeerAddress(p)) : p \in {1, 2} }
CodecData ==
  SeqsUpTo({0, 1, 255}, MaxLen)
    \cup { [i \in 1..n |-> (15 * i) % ByteCount] : n \in {16, 17, 33} }

\* the transform applied once and twice
Crypt(keys, addrs, datas) ==
  /\ \E key \in keys, addr \in addrs, data \in datas :
       LET once == _encrypt_decrypt_data(key, addr, data)
       IN ev' = [op |-> "crypt", key |-> key, addr |-> addr, data |-> data,
                 once |-> once,
                 twice |-> _encrypt_decrypt_data(key, addr, once)]
  /\ UNCHANGED << session, pc, retries, opc, sent, stay, okRun, userDisc, app, notif >>

FrameAddrs == {0, 1, 127, 128, 255}
FrameCommands == PlejdCommand \cup {0, 256, 6912, 65535}
FrameResponses == {BLE_REQUEST_NO_RESPONSE, BLE_REQUEST_RESPONSE}
FrameHex == { << >>, <<0, 1>>, <<15, 15>>, <<0, 1, 1, 2, 1, 2>> }

\* a command frame is built and read back
BuildFrame(addrs, cmds, hexes, rts) ==
  /\ \E a \in addrs, cmd \in cmds, h \in hexes, rt \in rts :
       LET frame == _get_cmd_payload(a, cmd, h, rt)
       IN ev' = [op |-> "frame", addr |-> a, cmd |-> cmd, hex |-> h, rt |-> rt,
                 frame |-> frame, sender |-> decode_sender(frame),
                 command |-> decode_command(frame)]
  /\ UNCHANGED << session, pc, retries, opc, sent, stay, okRun, userDisc, app, notif >>

NextCodec ==
  \/ Crypt(CodecKeys, CodecAddrs, CodecData)
  \/ BuildFrame(FrameAddrs, FrameCommands, FrameHex, FrameResponses)

CodecSpec == Init /\ [][NextCodec]_vars

\* ------------------------------------------------- the scan of _connect
\* a selection in which a later peer of equal strength replaces the choice
RECURSIVE select_device_Last(_)
select_device_Last(scan) ==
  IF scan = << >> THEN [curr_rssi |-> -255, plejd_device |-> 0]
  ELSE LET prev == select_device_Last(SubSeq(scan, 1, Len(scan) - 1))
           last == scan[Len(scan)]
       IN IF last.rssi >= prev.curr_rssi
            THEN [curr_rssi |-> last.rssi, plejd_device |-> last.device]
            ELSE prev

\* _connect, lines 410-418: the loop over the scanner's table, from
\* curr_rssi = -255 and plejd_device = None (0)
RECURSIVE select_device(_)
select_device(scan) ==
  IF scan = << >> THEN [curr_rssi |-> -255, plejd_device |-> 0]
  ELSE LET prev == select_device(SubSeq(scan, 1, Len(scan) - 1))
           last == scan[Len(scan)]
       IN IF last.rssi > prev.curr_rssi
            THEN [curr_rssi |-> last.rssi, plejd_device |-> last.device]
            ELSE prev

\* an advertisement of device d is received while the scan of task t runs:
\* the scanner's table, a dict keyed by the device's address, gains an
\* entry at its end or has the entry of d replaced in place
Discover(t, devices, rssis) ==
  /\ pc[t] = "scan"
  /\ \E d \in devices, r \in rssis :
       LET q == discovered[t]
           at == { i \in 1..Len(q) : q[i].device = d }
       IN discovered' =
            [discovered EXCEPT ![t] =
               IF at = {} THEN Append(q, [device |-> d, rssi |-> r])
               ELSE [i \in 1..Len(q) |->
                       IF i \in at THEN [device |-> d, rssi |-> r] ELSE q[i]]]
  /\ ev' = NoEv
  /\ UNCHANGED << _client, nclients, linkUp, authed, _disconnect, peer, pc,
                  retries, opc, sent, stay, okRun, userDisc, app, notif >>

\* _connect, lines 388-425: the scan ends, by an error of the scanner or
\* with the table as it is; lines 402-422 return False when it is empty or
\* nothing was selected
ScanEnd(t, limit) ==
  /\ pc[t] = "scan"
  /\ UNCHANGED << notif, discovered >>
  /\ \E o \in {"ok", "error"} :
       LET plejd_device == select_device(discovered[t]).plejd_device
       IN IF o = "ok" /\ discovered[t] # << >> /\ plejd_device # 0
            THEN OpenClient(t, plejd_device, limit)
            ELSE /\ ConnectDone(t, "False")
                 /\ UNCHANGED << session, opc, sent, userDisc, app >>

\* the devices that advertise and the signal strengths (dBm) they are
\* received with
ScanDevices == {1, 2, 3}
ScanRssi == {-90, -60, -40}

NextScan ==
  \/ Connect(FALSE)
  \/ Discover(0, ScanDevices, ScanRssi)
  \/ ScanEnd(0, MaxClients)
  \/ OpenDone(0)
  \/ AuthWriteDone(0)
  \/ AuthReadDone(0)
  \/ AuthResponseDone(0)
  \/ \E c \in Clients : LinkLost(c)

ScanSpec == Init /\ [][NextScan]_vars

\* ------------------------------------------------------ _decode_response
\* supported_commands of BTSwitchInfo, BTLightInfo and BTDeviceTriggerInfo
supported_commands(category) ==
  CASE category = "switch" -> { BLE_CMD_STATE_CHANGE }
    [] category = "light" ->
         { BLE_CMD_DIM2_CHANGE, BLE_CMD_DIM_CHANGE, BLE_CMD_STATE_CHANGE }
    [] category = "device_trigger" ->
         { BLE_CMD_REMOTE_CLICK, BLE_CMD_STATE_CHANGE, BLE_CMD_DIM_CHANGE,
           BLE_CMD_DIM2_CHANGE }

\* the decoders return None
NoResult == [kind |-> "None"]

\* the parsed data types; logged tells that the decoder logged the command
\* as not supported before it built the value
BTSwitchData(raw_data, state) ==
  [kind |-> "BTSwitchData", raw_data |-> raw_data, state |-> state]
BTLightData(raw_data, state, brightness, logged) ==
  [kind |-> "BTLightData", raw_data |-> raw_data, state |-> state,
   brightness |-> brightness, logged |-> logged]
BTDeviceTriggerData(raw_data, input) ==
  [kind |-> "BTDeviceTriggerData", raw_data |-> raw_data, input |-> input]

\* BTSwitch._decode_response, lines 165-183
BTSwitch_decode_response(decrypted_data) ==
  LET command == from_bytes_big(Slice(decrypted_data, 3, 5))
      state == IF Len(decrypted_data) > 5 THEN decrypted_data[6] ELSE 0
  IN IF command = BLE_CMD_TIME_UPDATE THEN NoResult
     ELSE IF command \notin supported_commands("switch") THEN NoResult
     ELSE BTSwitchData(decrypted_data, state # 0)

\* a light decoder without the time-update filter
BTLight_decode_response_NoTimeFilter(decrypted_data) ==
  LET command == from_bytes_big(Slice(decrypted_data, 3, 5))
      state == IF Len(decrypted_data) > 5 THEN decrypted_data[6] ELSE 0
      brightness == IF Len(decrypted_data) > 7 THEN decrypted_data[8] ELSE 0
  IN BTLightData(decrypted_data, state # 0, brightness,
                 command \notin supported_commands("light"))

\* a light decoder that takes the brightness one byte early
BTLight_decode_response_Byte6(decrypted_data) ==
  LET command == from_bytes_big(Slice(decrypted_data, 3, 5))
      state == IF Len(decrypted_data) > 5 THEN decrypted_data[6] ELSE 0
      brightness == IF Len(decrypted_data) > 7 THEN decrypted_data[7] ELSE 0
  IN IF command = BLE_CMD_TIME_UPDATE THEN NoResult
     ELSE BTLightData(decrypted_data, state # 0, brightness,
                      command \notin supported_commands("light"))

\* BTLight._decode_response, lines 297-320: a command outside the
\* supported set is logged (lines 305-308) and decoding goes on
BTLight_decode_response(decrypted_data) ==
  LET command == from_bytes_big(Slice(decrypted_data, 3, 5))
      state == IF Len(decrypted_data) > 5 THEN decrypted_data[6] ELSE 0
      brightness == IF Len(decrypted_data) > 7 THEN decrypted_data[8] ELSE 0
  IN IF command = BLE_CMD_TIME_UPDATE THEN NoResult
     ELSE BTLightData(decrypted_data, state # 0, brightness,
                      command \notin supported_commands("light"))

\* a trigger decoder that accepts frames of 7 bytes
BTDeviceTrigger_decode_response_Min7(decrypted_data) ==
  LET command == from_bytes_big(Slice(decrypted_data, 3, 5))
  IN IF command = BLE_CMD_TIME_UPDATE THEN NoResult
     ELSE IF command \notin supported_commands("device_trigger") THEN NoResult
     ELSE IF Len(decrypted_data) < 7 THEN NoResult
     ELSE BTDeviceTriggerData(decrypted_data, decrypted_data[7])

\* BTDeviceTrigger._decode_response, lines 329-356
BTDeviceTrigger_decode_response(decrypted_data) ==
  LET command == from_bytes_big(Slice(decrypted_data, 3, 5))
  IN IF command = BLE_CMD_TIME_UPDATE THEN NoResult
     ELSE IF command \notin supported_commands("device_trigger") THEN NoResult
     ELSE IF Len(decrypted_data) < 8 THEN NoResult
     ELSE BTDeviceTriggerData(decrypted_data, decrypted_data[7])

\* the decoder of the device's class
_decode_response(category, decrypted_data) ==
  CASE category = "switch" -> BTSwitch_decode_response(decrypted_data)
    [] category = "light" -> BTLight_decode_response(decrypted_data)
    [] category = "device_trigger" ->
         BTDeviceTrigger_decode_response(decrypted_data)

Categories == {"switch", "light", "device_trigger"}

\* the frames decoded: every prefix of frames of 9 bytes with the six
\* recognised command ids, an unknown id, no id, and two ids whose high
\* byte alone is a recognised id
DecodeIds == PlejdCommand \cup {0, 153, 38656, 6912}
DecodeFrames ==
  { SubSeq(<<1, 1, 16, id \div ByteCount, id % ByteCount, st, inp, br, 9>>, 1, n) :
      id \in DecodeIds, st \in {0, 1}, inp \in {0, 3}, br \in {0, 128},
      n \in 0..9 }
    \cup { <<1, 1, 16, 0, 151, 2, 0, 255>>, <<1, 1, 16, 0, 22, 0, 255, 0, 0, 0>> }

\* a callback of a device of some category decodes a frame
Decode(categories, frames) ==
  /\ \E category \in categories, frame \in frames :
       ev' = [op |-> "decode", category |-> category, frame |-> frame,
              res |-> _decode_response(category, frame)]
  /\ UNCHANGED << session, pc, retries, opc, sent, stay, okRun, userDisc, app, notif >>

NextDecode == Decode(Categories, DecodeFrames)

DecodeSpec == Init /\ [][NextDecode]_vars

\* ------------------------------------------------- the racing session
\* the caller connects again and pings (plejd.py, write_health_data) while
\* keep-alive tasks run
NextRace ==
  \/ \E b \in BOOLEAN : ConnectWithin(b, AllKA)
  \/ CallPing(PingBytes)
  \/ \E t \in AllTasks : ScanDoneWithin(t, SessionPeers, RaceClients)
  \/ \E t \in AllTasks : OpenDone(t)
  \/ \E t \in AllTasks : AuthWriteDone(t)
  \/ \E t \in AllTasks : AuthReadDone(t)
  \/ \E t \in AllTasks : AuthResponseDone(t)
  \/ \E t \in AllTasks : PingWriteDone(t)
  \/ \E t \in AllTasks : PingReadDone(t, Pongs)
  \/ \E t \in AllKA : KaStart(t)
  \/ \E t \in AllKA : KaWake(t)
  \/ \E c \in AllClients : LinkLost(c)

RaceSpec == Init /\ [][NextRace]_vars

\* ------------------------------------------------------- ping, all bytes
\* the session as a successful connect(False) leaves it
Connected ==
  /\ _client = 1 /\ nclients = 1
  /\ linkUp = [c \in AllClients |-> c = 1]
  /\ authed = [c \in AllClients |-> c = 1]
  /\ peer = [c \in AllClients |-> IF c = 1 THEN 1 ELSE 0]
  /\ discovered = [t \in AllTasks |-> << >>]
  /\ _disconnect = FALSE
  /\ pc = [t \in AllTasks |-> IF t = 0 THEN "idle" ELSE "none"]
  /\ retries = [t \in AllTasks |-> 0]
  /\ opc = [t \in AllTasks |-> 0]
  /\ sent = [t \in AllTasks |-> 0]
  /\ stay = FALSE
  /\ okRun = [t \in AllTasks |-> FALSE]
  /\ userDisc = FALSE
  /\ _callbacks = [a \in {} |-> 0]
  /\ handler = [c \in AllClients |-> FALSE]
  /\ installs = [c \in AllClients |-> 0]
  /\ InitApp

InitPing == Connected /\ ev = NoEv

AllPongs == { << >>, <<0, 9>>, <<1, 9>> } \cup { <<b>> : b \in Byte }

NextPing ==
  \/ CallPing(Byte)
  \/ PingWriteDone(0)
  \/ PingReadDone(0, AllPongs)
  \/ LinkLost(1)

PingSpec == InitPing /\ [][NextPing]_vars

\* -------------------------------------------------------- get_plejd_time()
\* struct.unpack_from("<I", q, off)[0], for a q of at least off + 4 bytes:
\* the value 65536 * hi + lo, kept as its two 16-bit halves
unpack_u32_le(q, off) ==
  [hi |-> q[off + 3] + ByteCount * q[off + 4],
   lo |-> q[off + 1] + ByteCount * q[off + 2]]

\* no instant is returned
NoTime == [hi |-> -1, lo |-> -1]

\* lines 334-348, on the decrypted response: the error raised ("None":
\* nothing) and the timestamp of the instant returned (NoTime: nothing is
\* returned); unpack_from raises struct.error when fewer than 4 bytes
\* follow offset 5
plejd_time(last_data) ==
  IF Len(last_data) = 0
       \/ ~(from_bytes_big(Slice(last_data, 3, 5)) = BLE_CMD_TIME_UPDATE)
    THEN [res |-> "UnsupportedCommandError", time |-> NoTime]
  ELSE IF Len(last_data) < 5 + 4
    THEN [res |-> "struct.error", time |-> NoTime]
  ELSE [res |-> "None", time |-> unpack_u32_le(last_data, 5)]

TimeWrite == [rw |-> "write", ch |-> "DATA_UUID"]
TimeRead == [rw |-> "read", ch |-> "DATA_UUID"]

\* get_plejd_time, lines 315-348: arg is what the caller passes (a device
\* description, or a bare mesh address as plejd.py line 195 does, on which
\* .ble_address is an AttributeError), wr and rd are what send_command and
\* get_last_data raised ("None": nothing, "skipped": not called)
get_plejd_time(connected, arg, wr, rd, last_data) ==
  LET request == _get_cmd_payload(arg.ble_address, BLE_CMD_TIME_UPDATE, << >>,
                                  BLE_REQUEST_RESPONSE)
  IN IF ~connected
       THEN [res |-> "PlejdNotConnectedError", time |-> NoTime, io |-> << >>,
             request |-> << >>]
     ELSE IF arg.kind # "info"
       THEN [res |-> "AttributeError", time |-> NoTime, io |-> << >>,
             request |-> << >>]
     ELSE IF wr # "None"
       THEN [res |-> wr, time |-> NoTime, io |-> << TimeWrite >>,
             request |-> request]
     ELSE IF rd # "None"
       THEN [res |-> rd, time |-> NoTime,
             io |-> IF rd = "PlejdNotConnectedError" THEN << TimeWrite >>
                    ELSE << TimeWrite, TimeRead >>,
             request |-> request]
     ELSE [res |-> plejd_time(last_data).res,
           time |-> plejd_time(last_data).time,
           io |-> << TimeWrite, TimeRead >>, request |-> request]

\* get_plejd_time() of the caller returns or raises
GetTimeDone(connected, arg, wr, rd, last_data) ==
  LET r == get_plejd_time(connected, arg, wr, rd, last_data)
  IN /\ pc' = [pc EXCEPT ![0] = "idle"]
     /\ opc' = [opc EXCEPT ![0] = 0]
     /\ sent' = [sent EXCEPT ![0] = 0]
     /\ ev' = [op |-> "get_plejd_time", connected |-> connected, arg |-> arg,
               wr |-> wr, rd |-> rd, data |-> last_data, res |-> r.res,
               time |-> r.time, io |-> r.io, request |-> r.request]
     /\ UNCHANGED << retries, stay, okRun >>

\* lines 315-327: the connection check, then send_command starts the write
\* of the request
GetTimeStart(args) ==
  /\ pc[0] = "idle"
  /\ UNCHANGED << session, userDisc, app, notif >>
  /\ \E arg \in args :
       IF ~is_connected \/ arg.kind # "info"
         THEN GetTimeDone(is_connected, arg, "skipped", "skipped", << >>)
       ELSE /\ pc' = [pc EXCEPT ![0] = "time_w"]
            /\ opc' = [opc EXCEPT ![0] = _client]
            /\ sent' = [sent EXCEPT ![0] = arg.ble_address]
            /\ ev' = NoEv
            /\ UNCHANGED << retries, stay, okRun >>

\* lines 322-329 and 287-293: the write ends; on success get_last_data
\* checks is_connected() and starts the read of the data channel
GetTimeWriteDone ==
  /\ pc[0] = "time_w"
  /\ UNCHANGED << session, userDisc, app, notif >>
  /\ LET arg == [kind |-> "info", ble_address |-> sent[0]]
     IN \E o \in IoOutcomes(opc[0]) :
          IF send_command(TRUE, BLE_CMD_TIME_UPDATE, o).res # "None"
            THEN GetTimeDone(TRUE, arg,
                             send_command(TRUE, BLE_CMD_TIME_UPDATE, o).res,
                             "skipped", << >>)
          ELSE IF ~is_connected
            THEN GetTimeDone(TRUE, arg, "None", "PlejdNotConnectedError", << >>)
          ELSE /\ pc' = [pc EXCEPT ![0] = "time_r"]
               /\ opc' = [opc EXCEPT ![0] = _client]
               /\ ev' = NoEv
               /\ UNCHANGED << sent, retries, stay, okRun >>

\* lines 293-299 and 330-348: the read ends with an error, or with the
\* peer's encryption of a frame among frames, which get_last_data decrypts
\* with the address of the current client
GetTimeReadDone(frames) ==
  /\ pc[0] = "time_r"
  /\ UNCHANGED << session, userDisc, app, notif >>
  /\ LET arg == [kind |-> "info", ble_address |-> sent[0]]
     IN \E o \in IoOutcomes(opc[0]) :
          IF o # "ok" THEN GetTimeDone(TRUE, arg, "None", PlejdError(o), << >>)
          ELSE \E plain \in frames :
                 LET encrypted_data ==
                       _encrypt_decrypt_data(
                         Key, _encode_address(PeerAddress(peer[opc[0]])), plain)
                 IN GetTimeDone(TRUE, arg, "None", "None",
                                _encrypt_decrypt_data(
                                  Key, _encode_address(PeerAddress(peer[_client])),
                                  encrypted_data))

\* the arguments and the responses the specification of get_plejd_time
\* draws: frames of every length up to 12 bytes with the time-update id,
\* another recognised id, and ids that differ from it in one byte
TimeArgs ==
  { [kind |-> "info", ble_address |-> a] : a \in {1, 2} }
    \cup { [kind |-> "address", ble_address |-> 1] }
TimeIds == {BLE_CMD_TIME_UPDATE, BLE_CMD_STATE_CHANGE, 6912, 283}
TimeStamps == { <<0, 0, 0, 0>>, <<1, 2, 3, 4>>, <<255, 255, 255, 255>> }
TimeFrames ==
  { SubSeq(<<1, 1, 2, id \div ByteCount, id % ByteCount>> \o ts \o <<0, 0, 0>>,
           1, n) : id \in TimeIds, ts \in TimeStamps, n \in 0..12 }
    \cup { <<1, 2, 3, 4, 5, 6, 7, 8>>, <<1, 1, 2, 27>> }

\* -------------------------------------------------------- set_plejd_time()
\* struct.pack("<I", v) of v = 65536 * v.hi + v.lo
pack_u32_le(v) ==
  << v.lo % ByteCount, v.lo \div ByteCount, v.hi % ByteCount, v.hi \div ByteCount >>

\* bytes.hex(): two hex digits for every byte
hex(q) ==
  [i \in 1..(2 * Len(q)) |->
     IF i % 2 = 1 THEN q[(i + 1) \div 2] \div 16 ELSE q[i \div 2] % 16]

\* a set_plejd_time that asks for a response
set_plejd_time_Request(plejd_device, time, connected, o) ==
  LET timestamp == pack_u32_le(time) \o <<0>>
      call == [ble_address |-> plejd_device.ble_address,
               command |-> BLE_CMD_TIME_UPDATE, hex_str |-> hex(timestamp),
               response_type |-> BLE_REQUEST_RESPONSE]
      r == send_command(connected, call.command, o)
  IN [res |-> IF r.res = "None" THEN "True" ELSE r.res, sendres |-> r.res,
      calls |-> << call >>, io |-> r.io,
      frame |-> IF r.io = << >> THEN << >>
                ELSE _get_cmd_payload(call.ble_address, call.command,
                                      call.hex_str, call.response_type)]

\* set_plejd_time, lines 366-380: the send_command calls made, what the
\* call raised (sendres, "None": nothing), the result ("True" or the error
\* raised again) and the frame handed to the data channel; o is the outcome
\* of the write
set_plejd_time(plejd_device, time, connected, o) ==
  LET timestamp == pack_u32_le(time) \o <<0>>
      call == [ble_address |-> plejd_device.ble_address,
               command |-> BLE_CMD_TIME_UPDATE, hex_str |-> hex(timestamp),
               response_type |-> BLE_REQUEST_NO_RESPONSE]
      r == send_command(connected, call.command, o)
  IN [res |-> IF r.res = "None" THEN "True" ELSE r.res, sendres |-> r.res,
      calls |-> << call >>, io |-> r.io,
      frame |-> IF r.io = << >> THEN << >>
                ELSE _get_cmd_payload(call.ble_address, call.command,
                                      call.hex_str, call.response_type)]

SetPlejdTime(devices, times) ==
  /\ \E plejd_device \in devices, time \in times :
       \E o \in (IF is_connected THEN IoOutcomes(_client) ELSE {"ok"}) :
         LET r == set_plejd_time(plejd_device, time, is_connected, o)
         IN ev' = [op |-> "set_plejd_time", arg |-> plejd_device,
                   time |-> time, connected |-> is_connected,
                   res |-> r.res, sendres |-> r.sendres, calls |-> r.calls,
                   io |-> r.io, frame |-> r.frame]
  /\ UNCHANGED << session, pc, retries, opc, sent, stay, okRun, userDisc, app, notif >>

\* the devices and the instants (unix timestamps of 32 bits, as the system
\* clock and NTP give) that set_plejd_time is called with
TimeDevices == { [kind |-> "info", ble_address |-> a] : a \in {1, 2} }
SetTimes ==
  { [hi |-> 0, lo |-> 0], [hi |-> 1027, lo |-> 513], [hi |-> 27369, lo |-> 12345],
    [hi |-> 32767, lo |-> 65535], [hi |-> 32768, lo |-> 0],
    [hi |-> 65535, lo |-> 65535] }

\* ---------------------------------------------------------- get_last_data()
\* a get_last_data that returns the bytes as read
get_last_data_Raw(connected, rd, encrypted_data, address) ==
  IF ~connected
    THEN [res |-> "PlejdNotConnectedError", data |-> << >>, io |-> << >>]
  ELSE IF rd # "None"
    THEN [res |-> rd, data |-> << >>, io |-> << TimeRead >>]
  ELSE [res |-> "None", data |-> encrypted_data, io |-> << TimeRead >>]

\* get_last_data, lines 287-299: rd is what _read_request raised ("None":
\* nothing), encrypted_data what it returned, address the address of
\* self._client when the read has ended
get_last_data(connected, rd, encrypted_data, address) ==
  IF ~connected
    THEN [res |-> "PlejdNotConnectedError", data |-> << >>, io |-> << >>]
  ELSE IF rd # "None"
    THEN [res |-> rd, data |-> << >>, io |-> << TimeRead >>]
  ELSE [res |-> "None",
        data |-> _encrypt_decrypt_data(Key, _encode_address(address),
                                       encrypted_data),
        io |-> << TimeRead >>]

\* get_last_data() of the caller returns or raises
GetLastDataDone(connected, rd, encrypted_data) ==
  LET address == IF _client = 0 THEN << >> ELSE PeerAddress(peer[_client])
      r == get_last_data(connected, rd, encrypted_data, address)
  IN /\ pc' = [pc EXCEPT ![0] = "idle"]
     /\ opc' = [opc EXCEPT ![0] = 0]
     /\ ev' = [op |-> "get_last_data", connected |-> connected, rd |-> rd,
               encrypted |-> encrypted_data, address |-> address,
               res |-> r.res, data |-> r.data, io |-> r.io]
     /\ UNCHANGED << sent, retries, stay, okRun >>

\* lines 287-293: the connection check, then _read_request starts the read
GetLastDataStart ==
  /\ pc[0] = "idle"
  /\ UNCHANGED << session, userDisc, app, notif >>
  /\ IF ~is_connected THEN GetLastDataDone(FALSE, "skipped", << >>)
     ELSE /\ pc' = [pc EXCEPT ![0] = "last_r"]
          /\ opc' = [opc EXCEPT ![0] = _client]
          /\ ev' = NoEv
          /\ UNCHANGED << sent, retries, stay, okRun >>

\* lines 293-299: the read ends with an error, or with the peer's
\* encryption of a frame among frames
GetLastDataReadDone(frames) ==
  /\ pc[0] = "last_r"
  /\ UNCHANGED << session, userDisc, app, notif >>
  /\ \E o \in IoOutcomes(opc[0]) :
       IF o # "ok" THEN GetLastDataDone(TRUE, PlejdError(o), << >>)
       ELSE \E plain \in frames :
              GetLastDataDone(
                TRUE, "None",
                _encrypt_decrypt_data(
                  Key, _encode_address(PeerAddress(peer[opc[0]])), plain))

NextTime ==
  \/ GetTimeStart(TimeArgs)
  \/ GetTimeWriteDone
  \/ GetTimeReadDone(TimeFrames)
  \/ SetPlejdTime(TimeDevices, SetTimes)
  \/ GetLastDataStart
  \/ GetLastDataReadDone(TimeFrames)
  \/ LinkLost(1)

TimeSpec == InitPing /\ [][NextTime]_vars

\* ------------------------------------------------------ BTLight.on / off
\* PlejdAction.BLE_DEVICE_ON and BLE_DEVICE_OFF, the payloads "01" and "00"
\* as hex digits
BLE_DEVICE_ON == <<0, 1>>
BLE_DEVICE_OFF == <<0, 0>>

\* the errors the except clauses of on() and off() catch: the classes
\* PlejdNotConnectedError, PlejdBluetoothError and PlejdTimeoutError and
\* their subclasses (bt_client.py, lines 40-76)
PlejdBluetoothErrors ==
  { "PlejdBluetoothError", "PlejdNotConnectedError", "PlejdTimeoutError",
    "UnsupportedCharacteristicError", "UnsupportedCommandError" }

\* a switch that lets a timeout reach the caller
BTLight_switch_TimeoutRaised(ble_address, on, connected, o) ==
  LET call == [ble_address |-> ble_address, command |-> BLE_CMD_STATE_CHANGE,
               hex_str |-> IF on THEN BLE_DEVICE_ON ELSE BLE_DEVICE_OFF,
               response_type |-> BLE_REQUEST_NO_RESPONSE]
      r == send_command(connected, call.command, o)
  IN [res |-> IF r.res = "None" THEN "True"
              ELSE IF r.res = "PlejdTimeoutError" THEN r.res
              ELSE IF r.res \in PlejdBluetoothErrors THEN "False"
              ELSE r.res,
      sendres |-> r.res, calls |-> << call >>, io |-> r.io]

\* BTLight.on (on = TRUE), lines 197-218, and BTLight.off, lines 228-250:
\* the send_command calls made, what the call raised, and the result; o
\* is the outcome of the write
BTLight_switch(ble_address, on, connected, o) ==
  LET call == [ble_address |-> ble_address, command |-> BLE_CMD_STATE_CHANGE,
               hex_str |-> IF on THEN BLE_DEVICE_ON ELSE BLE_DEVICE_OFF,
               response_type |-> BLE_REQUEST_NO_RESPONSE]
      r == send_command(connected, call.command, o)
  IN [res |-> IF r.res = "None" THEN "True"
              ELSE IF r.res \in PlejdBluetoothErrors THEN "False"
              ELSE r.res,
      sendres |-> r.res, calls |-> << call >>, io |-> r.io]

LightSwitch(addresses) ==
  /\ \E ble_address \in addresses, on \in BOOLEAN :
       \E o \in (IF is_connected THEN IoOutcomes(_client) ELSE {"ok"}) :
         LET r == BTLight_switch(ble_address, on, is_connected, o)
         IN ev' = [op |-> "light_switch", ble_address |-> ble_address,
                   on |-> on, connected |-> is_connected, res |-> r.res,
                   sendres |-> r.sendres, calls |-> r.calls, io |-> r.io]
  /\ UNCHANGED << session, pc, retries, opc, sent, stay, okRun, userDisc, app, notif >>

LightAddresses == {1, 2}

\* a caller that connects without keep-alive and switches lights
NextLight ==
  \/ Connect(FALSE)
  \/ Disconnect
  \/ LightSwitch(LightAddresses)
  \/ ScanDone(0, SessionPeers)
  \/ OpenDone(0)
  \/ AuthWriteDone(0)
  \/ AuthReadDone(0)
  \/ AuthResponseDone(0)
  \/ \E c \in Clients : LinkLost(c)

LightSpec == Init /\ [][NextLight]_vars

\* --------------------------------------------------- BTLight.brightness
\* PlejdAction.BLE_DEVICE_DIM, the payload "01" as hex digits
BLE_DEVICE_DIM == <<0, 1>>

\* f"{n:X}": the hexadecimal digits of n, without padding
RECURSIVE format_X(_)
format_X(n) ==
  IF n < 16 THEN << n >> ELSE Append(format_X(n \div 16), n % 16)

\* lines 273-275: the payload of the dim command for a brightness
brightness_data(brightness) ==
  LET pad == IF brightness <= 15 THEN << 0 >> ELSE << >>
      s_brightness == brightness * 256 + brightness
  IN BLE_DEVICE_DIM \o pad \o format_X(s_brightness)

\* BTLight.brightness, lines 252-295, on a light whose description has
\* the brightness flag supports: the send_command calls made, what the
\* call raised, and the result; o is the outcome of the write
BTLight_brightness(ble_address, supports, brightness, connected, o) ==
  IF ~supports
    THEN [res |-> "RuntimeError", sendres |-> "None", calls |-> << >>,
          io |-> << >>]
  ELSE
    LET call == [ble_address |-> ble_address, command |-> BLE_CMD_DIM2_CHANGE,
                 hex_str |-> brightness_data(brightness),
                 response_type |-> BLE_REQUEST_NO_RESPONSE]
        r == send_command(connected, call.command, o)
    IN [res |-> IF r.res = "None" THEN "True"
                ELSE IF r.res \in PlejdBluetoothErrors THEN "False"
                ELSE r.res,
        sendres |-> r.res, calls |-> << call >>, io |-> r.io]

LightBrightness(addresses, levels) ==
  /\ \E ble_address \in addresses, supports \in BOOLEAN, b \in levels :
       \E o \in (IF is_connected THEN IoOutcomes(_client) ELSE {"ok"}) :
         LET r == BTLight_brightness(ble_address, supports, b, is_connected, o)
         IN ev' = [op |-> "light_brightness", ble_address |-> ble_address,
                   supports |-> supports, brightness |-> b,
                   connected |-> is_connected, res |-> r.res,
                   sendres |-> r.sendres, calls |-> r.calls, io |-> r.io]
  /\ UNCHANGED << session, pc, retries, opc, sent, stay, okRun, userDisc, app, notif >>

\* a connected caller that dims one light to every level, and the link
\* that may drop
NextBright ==
  \/ LightBrightness({1}, Byte)
  \/ LinkLost(1)

BrightSpec == InitPing /\ [][NextBright]_vars

\* ------------------------------------- CombinedDevice.start, _create_devices
\* what _create_mqtt_device does: it returns the entities, or the MQTT
\* library raises (a refused connection, a RuntimeError, or an OSError
\* such as a host name that does not resolve)
MqttOutcomes == {"ok", "ConnectionError", "RuntimeError", "OSError"}

\* _create_bt_device of CombinedLight (lines 217-229) and of
\* CombinedDeviceTrigger (lines 318-332): subscribe, and a
\* PlejdNotConnectedError becomes a BTDeviceError
_create_bt_device(connected, cbs, a, cb, o) ==
  LET sub == subscribe_last_data(connected, cbs, a, cb, o)
  IN [res |-> IF sub.res = "PlejdNotConnectedError" THEN "BTDeviceError"
              ELSE sub.res,
      sub |-> sub]

\* a start that creates the BT device whatever became of the MQTT entity
CombinedDevice_start_BTAlways(mo, connected, cbs, a, cb, o) ==
  LET bt == _create_bt_device(connected, cbs, a, cb, o)
  IN IF mo \in {"ConnectionError", "RuntimeError"}
       THEN [res |-> "MQTTDeviceError",
             calls |-> << "_create_mqtt_device", "_create_bt_device" >>,
             mqtt_entities |-> FALSE, bt_device |-> bt.res = "None",
             callbacks |-> bt.sub.callbacks, installed |-> bt.sub.installed,
             io |-> bt.sub.io]
     ELSE IF mo # "ok"
       THEN [res |-> mo, calls |-> << "_create_mqtt_device" >>,
             mqtt_entities |-> FALSE, bt_device |-> FALSE,
             callbacks |-> cbs, installed |-> FALSE, io |-> << >>]
     ELSE [res |-> bt.res,
           calls |-> << "_create_mqtt_device", "_create_bt_device" >>,
           mqtt_entities |-> TRUE, bt_device |-> bt.res = "None",
           callbacks |-> bt.sub.callbacks, installed |-> bt.sub.installed,
           io |-> bt.sub.io]

\* CombinedDevice.start, lines 102-123, for the outcome mo of
\* _create_mqtt_device and the outcome o of start_notify: what it raises,
\* the creations it calls in order, the fields it sets, the registry and
\* the transport calls of the subscription
CombinedDevice_start(mo, connected, cbs, a, cb, o) ==
  LET bt == _create_bt_device(connected, cbs, a, cb, o)
  IN IF mo \in {"ConnectionError", "RuntimeError"}
       THEN [res |-> "MQTTDeviceError", calls |-> << "_create_mqtt_device" >>,
             mqtt_entities |-> FALSE, bt_device |-> FALSE,
             callbacks |-> cbs, installed |-> FALSE, io |-> << >>]
     ELSE IF mo # "ok"
       THEN [res |-> mo, calls |-> << "_create_mqtt_device" >>,
             mqtt_entities |-> FALSE, bt_device |-> FALSE,
             callbacks |-> cbs, installed |-> FALSE, io |-> << >>]
     ELSE [res |-> bt.res,
           calls |-> << "_create_mqtt_device", "_create_bt_device" >>,
           mqtt_entities |-> TRUE, bt_device |-> bt.res = "None",
           callbacks |-> bt.sub.callbacks, installed |-> bt.sub.installed,
           io |-> bt.sub.io]

\* the categories _create_devices builds a combined device for,
\* plejd.py lines 345-359
CreatedCategories == {"light", "device_trigger", "switch"}

\* _load_plejd_site has returned a site
SiteLoaded(sites) ==
  /\ ~plejd_site.loaded
  /\ \E devices \in sites : plejd_site' = [loaded |-> TRUE, devices |-> devices]
  /\ ev' = NoEv
  /\ UNCHANGED << session, pc, retries, opc, sent, stay, okRun, userDisc, notif,
                  create, combined_devices, _mqtt_entities, _bt_device, tasks,
                  loading, mqtt, health >>

\* one round of the loop of _create_devices, plejd.py lines 344-369, on
\* the next device of the site; the device's mesh address and its callback
\* are its index
CreateDevice ==
  /\ plejd_site.loaded /\ create.res \in {"none", "running"}
  /\ create.i < Len(plejd_site.devices)
  /\ LET d == create.i + 1
         category == plejd_site.devices[d]
     IN IF category \notin CreatedCategories
          THEN /\ create' = [i |-> d, res |-> "running"]
               /\ ev' = [op |-> "create_device", d |-> d, started |-> FALSE]
               /\ UNCHANGED << notif, combined_devices, _mqtt_entities,
                               _bt_device, mqtt_state >>
        ELSE
          /\ is_connected => installs[_client] < MaxInstalls
          /\ \E mo \in MqttOutcomes :
               \E o \in (IF is_connected THEN {"ok", "BleakError"} ELSE {"ok"}) :
                 LET r == CombinedDevice_start(mo, is_connected, _callbacks,
                                               d, d, o)
                     skip == r.res \in {"MQTTDeviceError", "BTDeviceError"}
                 IN /\ _mqtt_entities' = [_mqtt_entities EXCEPT ![d] = r.mqtt_entities]
                    /\ mqtt_state' =
                         IF r.mqtt_entities /\ category = "light"
                           THEN [mqtt_state EXCEPT ![d] = [call |-> "off", arg |-> 0]]
                         ELSE mqtt_state
                    /\ _bt_device' = [_bt_device EXCEPT ![d] = r.bt_device]
                    /\ _callbacks' = r.callbacks
                    /\ handler' = IF r.installed
                                    THEN [handler EXCEPT ![_client] = TRUE]
                                  ELSE handler
                    /\ installs' = IF r.installed
                                     THEN [installs EXCEPT ![_client] = @ + 1]
                                   ELSE installs
                    /\ combined_devices' =
                         IF r.res = "None" THEN Append(combined_devices, d)
                         ELSE combined_devices
                    /\ create' = [i |-> d,
                                  res |-> IF r.res = "None" \/ skip
                                            THEN "running" ELSE r.res]
                    /\ ev' = [op |-> "create_device", d |-> d, started |-> TRUE,
                              mqtt |-> mo, connected |-> is_connected,
                              res |-> r.res, calls |-> r.calls, io |-> r.io,
                              before |-> combined_devices]
  /\ UNCHANGED << session, pc, retries, opc, sent, stay, okRun, userDisc,
                  plejd_site, tasks, loading, scheduled, health >>

\* _create_devices returns its list, line 370
CreateDevicesReturn ==
  /\ plejd_site.loaded /\ create.res \in {"none", "running"}
  /\ create.i = Len(plejd_site.devices)
  /\ create' = [create EXCEPT !.res = "returned"]
  /\ ev' = [op |-> "create_devices", res |-> combined_devices]
  /\ UNCHANGED << session, pc, retries, opc, sent, stay, okRun, userDisc, notif,
                  plejd_site, combined_devices, _mqtt_entities, _bt_device,
                  tasks, loading, mqtt, health >>

\* the categories a site's devices are drawn from; CombinedSwitch is not
\* declared in combined_device.py, so no switch is drawn
SiteCategories == {"light", "device_trigger", "sensor"}
Sites == UNION { [1..n -> SiteCategories] : n \in 0..MaxDevices }

\* the program creating the devices of its site over a session that is up
\* and may drop
NextDevices ==
  \/ SiteLoaded(Sites)
  \/ CreateDevice
  \/ CreateDevicesReturn
  \/ LinkLost(1)

DevicesSpec == InitPing /\ [][NextDevices]_vars

\* ------------------------------------------------------ _update_plejd_time
\* the defaults of PlejdSettings, in seconds
time_update_interval == 3600
time_update_threshold == 10

\* the get_plejd_time and set_plejd_time that plejd.py (lines 195 and 201)
\* and test_bt_client.py call: with the mesh address of a device
get_plejd_time_address(connected, ble_address, wr, rd, last_data) ==
  get_plejd_time(connected, [kind |-> "info", ble_address |-> ble_address],
                 wr, rd, last_data)

set_plejd_time_address(ble_address, time, connected, o) ==
  set_plejd_time([kind |-> "info", ble_address |-> ble_address], time,
                 connected, o)

\* datetime.fromtimestamp and int(time.timestamp()): an instant as seconds
\* and as the two halves of a u32
Seconds(t) == 65536 * t.hi + t.lo
Halves(n) == [hi |-> n \div 65536, lo |-> n % 65536]

abs(n) == IF n < 0 THEN -n ELSE n

\* plejd.py lines 198-200: whether the mesh time is to be set
time_differs(current_plejd_time, current_sys_time) ==
  abs(current_plejd_time - current_sys_time) > time_update_interval

\* _run, lines 140-149: with at least one device created it starts the
\* tasks of write_health_data and of _update_plejd_time; health_check is
\* the setting of that name
StartTasks ==
  /\ create.res = "returned" /\ Len(combined_devices) > 0
  /\ update_time_task = "none"
  /\ update_time_task' = "running"
  /\ \E health_check \in BOOLEAN :
       heartbeat_task' = [state |-> "running", health_check |-> health_check,
                          wake |-> clock]
  /\ ev' = NoEv
  /\ UNCHANGED << session, pc, retries, opc, sent, stay, okRun, userDisc, notif,
                  site, sync, loading, mqtt, health_files, clock >>

\* lines 176-190 and 218: the task wakes from its sleep and reads the
\* current time
SyncCycleStart(nows) ==
  /\ update_time_task = "running" /\ sync.i = 0
  /\ \E now \in nows : sync' = [i |-> 1, now |-> now]
  /\ ev' = NoEv
  /\ UNCHANGED << session, pc, retries, opc, sent, stay, okRun, userDisc, notif,
                  site, update_time_task, loading, mqtt, health >>

\* lines 192-216, one round of the loop over discovered_devices: the time
\* is read through the device and, when it differs, set; a
\* PlejdBluetoothError of either call moves on to the next device, any
\* other error ends the task, and the loop ends after the first device
\* that answered.  wr, rd and o are the outcomes of the writes and the
\* read, plain the frame the mesh answers with.
SyncDevice(frames) ==
  /\ update_time_task = "running" /\ sync.i > 0
  /\ LET device == IF sync.i <= Len(combined_devices)
                     THEN combined_devices[sync.i] ELSE 0
         outs == IF is_connected THEN IoOutcomes(_client) ELSE {"ok"}
     IN IF device = 0
          THEN /\ sync' = [sync EXCEPT !.i = 0]
               /\ ev' = [op |-> "sync_end", time_set |-> FALSE]
               /\ UNCHANGED update_time_task
        ELSE
          \E wr \in outs, rd \in outs, o \in outs, plain \in frames :
            LET address == IF is_connected
                             THEN _encode_address(PeerAddress(peer[_client]))
                           ELSE << >>
                last_data == _encrypt_decrypt_data(
                               Key, address,
                               _encrypt_decrypt_data(Key, address, plain))
                g == get_plejd_time_address(
                       is_connected, device, PlejdError(wr),
                       IF wr = "ok" THEN PlejdError(rd) ELSE "skipped", last_data)
                differs == g.res = "None"
                             /\ time_differs(Seconds(g.time), sync.now)
                s == set_plejd_time_address(device, Halves(sync.now),
                                            is_connected, o)
                raised == IF g.res # "None" THEN g.res
                          ELSE IF differs /\ s.res # "True" THEN s.res
                          ELSE "None"
            IN /\ sync' = [sync EXCEPT !.i =
                             IF raised = "None" THEN 0
                             ELSE IF raised \in PlejdBluetoothErrors THEN @ + 1
                             ELSE 0]
               /\ update_time_task' =
                    IF raised = "None" \/ raised \in PlejdBluetoothErrors
                      THEN update_time_task ELSE raised
               /\ ev' = [op |-> "sync_device", device |-> device,
                         connected |-> is_connected, now |-> sync.now,
                         got |-> g.res, plejd |-> g.time,
                         set_calls |-> IF differs THEN s.calls ELSE << >>,
                         set_io |-> IF differs THEN s.io ELSE << >>,
                         raised |-> raised, time_set |-> raised = "None"]
  /\ UNCHANGED << session, pc, retries, opc, sent, stay, okRun, userDisc, notif,
                  site, loading, mqtt, health >>

\* the instants of the system clock and the answers of the mesh the
\* clock-sync loop is run with: mesh times at, below and above the
\* threshold and the interval from the system's, a frame with another
\* command id and a frame cut short
SyncNows == {100000}
SyncOffsets == {0, 5, 10, 11, 3600, 3601, -10, -11, -3600, -3601}
SyncFrames ==
  { <<1, 1, 2, 0, 27>> \o pack_u32_le(Halves(now + d)) \o <<0, 0, 0>> :
      now \in SyncNows, d \in SyncOffsets }
    \cup { <<1, 1, 2, 0, 151, 1, 0, 0, 0>>, <<1, 1, 2, 0, 27, 1, 2>> }
SyncSites == { << "light" >>, << "light", "light" >> }

\* the program from the loaded site to the running clock-sync task
NextSync ==
  \/ SiteLoaded(SyncSites)
  \/ CreateDevice
  \/ CreateDevicesReturn
  \/ StartTasks
  \/ SyncCycleStart(SyncNows)
  \/ SyncDevice(SyncFrames)
  \/ LinkLost(1)

SyncSpec == InitPing /\ [][NextSync]_vars

\* ------------------------------------------- get_site, _load_plejd_site
\* what the requests of _get_site_from_api end with: a site, or the error
\* login (lines 113-139), _get_site_data (lines 358-372) or
\* _get_json_site_from_api (lines 270-275, whose request is outside its
\* try) raises
ApiOutcomes ==
  {"ok", "IncorrectCredentialsError", "PlejdAPIError", "UnknownResponseError",
   "RequestException"}

\* the subclasses of PlejdAPIError, plejd_api.py lines 32-68
PlejdAPIErrors ==
  {"PlejdAPIError", "UnknownResponseError", "UnsupportedDeviceTypeError",
   "IncorrectCredentialsError", "CacheFileError"}

\* what opening the cache file ends with
FileOutcomes == {"ok", "PermissionError"}

NoSite == [loaded |-> FALSE, devices |-> << >>]

\* _get_site_from_cache, lines 207-221 and 376-393, on the cache file
\* cache, with fr the outcome of opening it: what it raises, the site, and
\* the accesses to the file
_get_site_from_cache(fr, cache) ==
  IF fr # "ok" \/ ~cache.present
    THEN [res |-> "CacheFileError", site |-> NoSite, cache |-> cache,
          files |-> << "r" >>]
  ELSE [res |-> "None", site |-> [loaded |-> TRUE, devices |-> cache.devices],
        cache |-> cache, files |-> << "r" >>]

\* _get_site_from_api, lines 223-249 and 395-411: the requests, then the
\* site is stored to the cache file (a failure to store is only logged);
\* api is the outcome of the requests, devices the site they give, fw the
\* outcome of opening the file for writing
_get_site_from_api(api, devices, fw, cache) ==
  IF api # "ok"
    THEN [res |-> api, site |-> NoSite, cache |-> cache, files |-> << >>]
  ELSE [res |-> "None", site |-> [loaded |-> TRUE, devices |-> devices],
        cache |-> IF fw = "ok" THEN [present |-> TRUE, devices |-> devices]
                  ELSE cache,
        files |-> << "w" >>]

\* get_site, lines 141-205, under a cache policy
get_site(policy, api, devices, fr, fw, cache) ==
  LET c == _get_site_from_cache(fr, cache)
      a == _get_site_from_api(api, devices, fw, cache)
  IN CASE policy = "FIRST_CACHE" ->
            IF c.res = "None" THEN c
            ELSE [a EXCEPT !.files = c.files \o a.files]
       [] policy = "NO_CACHE" -> a
       [] policy = "NEEDED_CACHE" ->
            IF a.res = "None" \/ a.res \notin PlejdAPIErrors THEN a
            ELSE [c EXCEPT !.files = a.files \o c.files]

\* constants.API_MAX_RETRY_TIME of plejd.py line 299, in seconds
API_MAX_RETRY_TIME == 8

\* rounds of the retry loop a run is followed for
MaxApiRetries == 4

RECURSIVE pow2(_)
pow2(n) == IF n = 0 THEN 1 ELSE 2 * pow2(n - 1)

min(a, b) == IF a < b THEN a ELSE b

\* an earlier run of the program left a cache file
CacheLeft(sites) ==
  /\ load.pc = "start" /\ ~cache_file.present
  /\ \E devices \in sites : cache_file' = [present |-> TRUE, devices |-> devices]
  /\ ev' = NoEv
  /\ UNCHANGED << session, pc, retries, opc, sent, stay, okRun, userDisc, notif,
                  site, tasks, load, mqtt, health >>

\* _load_plejd_site, plejd.py lines 281-305 with _run lines 128-132: the
\* first call of get_site; incorrect credentials end the program, another
\* PlejdAPIError enters the retry loop
LoadSite(policies, sites) ==
  /\ load.pc = "start"
  /\ \E policy \in policies, api \in ApiOutcomes, devices \in sites,
        fr \in FileOutcomes, fw \in FileOutcomes :
       LET r == get_site(policy, api, devices, fr, fw, cache_file)
       IN /\ cache_file' = r.cache
          /\ plejd_site' = r.site
          /\ load' = [pc |-> IF r.res = "None" THEN "loaded"
                             ELSE IF r.res = "IncorrectCredentialsError" THEN "exit"
                             ELSE IF r.res \in PlejdAPIErrors THEN "retry"
                             ELSE "raised",
                      retry_count |-> 0, policy |-> policy, res |-> r.res]
          /\ ev' = [op |-> "get_site", in_loop |-> FALSE, policy |-> policy,
                    api |-> api, devices |-> devices, res |-> r.res,
                    site |-> r.site, files |-> r.files, before |-> cache_file,
                    backoff_time |-> 0]
  /\ UNCHANGED << session, pc, retries, opc, sent, stay, okRun, userDisc, notif,
                  create, combined_devices, _mqtt_entities, _bt_device, tasks,
                  mqtt, health >>

\* one round of _api_retry_loop, lines 289-303: get_site again; a
\* PlejdAPIError is counted and waited for, anything else is raised
RetrySite(sites) ==
  /\ load.pc = "retry" /\ load.retry_count < MaxApiRetries
  /\ \E api \in ApiOutcomes, devices \in sites,
        fr \in FileOutcomes, fw \in FileOutcomes :
       LET r == get_site(load.policy, api, devices, fr, fw, cache_file)
           again == r.res \in PlejdAPIErrors
           retry_count == IF again THEN load.retry_count + 1
                          ELSE load.retry_count
       IN /\ cache_file' = r.cache
          /\ plejd_site' = r.site
          /\ load' = [load EXCEPT !.pc = IF r.res = "None" THEN "loaded"
                                         ELSE IF again THEN "retry"
                                         ELSE "raised",
                                  !.retry_count = retry_count,
                                  !.res = r.res]
          /\ ev' = [op |-> "get_site", in_loop |-> TRUE, policy |-> load.policy,
                    api |-> api, devices |-> devices, res |-> r.res,
                    site |-> r.site, files |-> r.files, before |-> cache_file,
                    backoff_time |->
                      IF again THEN min(API_MAX_RETRY_TIME, pow2(retry_count))
                      ELSE 0]
  /\ UNCHANGED << session, pc, retries, opc, sent, stay, okRun, userDisc, notif,
                  create, combined_devices, _mqtt_entities, _bt_device, tasks,
                  mqtt, health >>

CachePolicies == {"NO_CACHE", "FIRST_CACHE", "NEEDED_CACHE"}
ApiSites == { << "light" >>, << "light", "device_trigger" >> }

\* the program loading its site
NextLoad ==
  \/ CacheLeft(ApiSites)
  \/ LoadSite(CachePolicies, ApiSites)
  \/ RetrySite(ApiSites)

LoadSpec == Init /\ [][NextLoad]_vars

\* ------------------------------------- notifications across a reconnect
\* a device of the mesh reports through the peer of link c: the transport
\* runs the handler registered with client c, or, when start_notify was
\* never called on client c, hands the frame to nobody
MeshNotifies(c) ==
  IF handler[c] THEN Notification(c)
  ELSE /\ linkUp[c]
       /\ \E plain \in NotifyFrames :
            ev' = [op |-> "unnotified", c |-> c, plain |-> plain,
                   invoked |-> << >>]
       /\ UNCHANGED << session, pc, retries, opc, sent, stay, okRun, userDisc,
                       app, notif >>

\* the caller's one connect(True), as _create_bt_client makes it until it
\* succeeds
FirstConnect == _client = 0 /\ Connect(TRUE)

\* the program's session: connected once with keep-alive, the devices
\* subscribe, the link may drop and the keep-alive task reconnects
NextResub ==
  \/ FirstConnect
  \/ SubscribeLastData(SubscribeAddrs, {1})
  \/ \E c \in Clients : MeshNotifies(c)
  \/ \E t \in Tasks : ScanDone(t, SessionPeers)
  \/ \E t \in Tasks : OpenDone(t)
  \/ \E t \in Tasks : AuthWriteDone(t)
  \/ \E t \in Tasks : AuthReadDone(t)
  \/ \E t \in Tasks : AuthResponseDone(t)
  \/ \E t \in KA : PingWriteDone(t)
  \/ \E t \in KA : PingReadDone(t, Pongs)
  \/ \E t \in KA : KaStart(t)
  \/ \E t \in KA : KaWake(t)
  \/ \E c \in Clients : LinkLost(c)

ResubSpec == Init /\ [][NextResub]_vars

\* ------------------------------------- CombinedLight._mqtt_callback
MaxScheduled == 2

\* a command payload: its brightness key (-1: no such key) and its state
\* key ("absent": no such key)
Payload(brightness, state) == [brightness |-> brightness, state |-> state]

\* CombinedLight._mqtt_callback, lines 231-251: the coroutine it hands to
\* the event loop and the call it makes on the MQTT entity.
\* run_coroutine_threadsafe returns a concurrent.futures.Future, which is
\* truthy whatever becomes of the coroutine, so each if is taken
_mqtt_callback(bt_device, payload) ==
  IF ~bt_device
    THEN [scheduled |-> << >>, publish |-> << >>]
  ELSE IF payload.brightness # -1
    THEN [scheduled |-> << [call |-> "brightness", arg |-> payload.brightness] >>,
          publish |-> << [call |-> "brightness", arg |-> payload.brightness] >>]
  ELSE IF payload.state # "absent"
    THEN IF payload.state = "ON"
           THEN [scheduled |-> << [call |-> "on", arg |-> 0] >>,
                 publish |-> << [call |-> "on", arg |-> 0] >>]
         ELSE [scheduled |-> << [call |-> "off", arg |-> 0] >>,
               publish |-> << [call |-> "off", arg |-> 0] >>]
  ELSE [scheduled |-> << >>, publish |-> << >>]

\* the MQTT client thread delivers a command to the callback of light d,
\* which Light registered in _create_mqtt_device (line 205)
MqttCommand(payloads) ==
  /\ Len(scheduled) < MaxScheduled
  /\ \E d \in DeviceIds, payload \in payloads :
       /\ d <= Len(plejd_site.devices) /\ plejd_site.devices[d] = "light"
       /\ _mqtt_entities[d]
       /\ LET r == _mqtt_callback(_bt_device[d], payload)
          IN /\ scheduled' =
                  scheduled \o [k \in 1..Len(r.scheduled) |->
                                  [d |-> d, call |-> r.scheduled[k].call,
                                   arg |-> r.scheduled[k].arg]]
             /\ mqtt_state' = IF r.publish = << >> THEN mqtt_state
                              ELSE [mqtt_state EXCEPT ![d] = r.publish[1]]
             /\ ev' = [op |-> "mqtt_command", d |-> d, payload |-> payload,
                       bt_device |-> _bt_device[d], submitted |-> r.scheduled,
                       publish |-> r.publish, bt_res |-> "pending",
                       before |-> mqtt_state[d]]
  /\ UNCHANGED << session, pc, retries, opc, sent, stay, okRun, userDisc, notif,
                  site, tasks, loading, health >>

\* the event loop runs the oldest coroutine submitted by the callback:
\* BTLight.on, off or brightness; nobody reads the result off the Future.
\* supports is the brightness flag of the device's description
RunScheduled ==
  /\ Len(scheduled) > 0
  /\ LET c == Head(scheduled)
     IN \E supports \in BOOLEAN :
          \E o \in (IF is_connected THEN IoOutcomes(_client) ELSE {"ok"}) :
            LET r == IF c.call = "brightness"
                       THEN BTLight_brightness(c.d, supports, c.arg,
                                               is_connected, o)
                     ELSE BTLight_switch(c.d, c.call = "on", is_connected, o)
            IN ev' = [op |-> "bt_operation", d |-> c.d, call |-> c.call,
                      arg |-> c.arg, connected |-> is_connected,
                      bt_res |-> r.res, calls |-> r.calls, publish |-> << >>,
                      before |-> mqtt_state[c.d]]
  /\ scheduled' = Tail(scheduled)
  /\ UNCHANGED << session, pc, retries, opc, sent, stay, okRun, userDisc, notif,
                  site, tasks, loading, mqtt_state, health >>

CommandLevels == {0, 200}

Payloads ==
  { Payload(b, s) : b \in CommandLevels \cup {-1},
                    s \in {"ON", "OFF", "absent"} }

\* the devices of a site are created, Home Assistant commands the lights,
\* the event loop runs what the callback submitted, and the link may drop
NextMqtt ==
  \/ SiteLoaded(SyncSites)
  \/ CreateDevice
  \/ CreateDevicesReturn
  \/ MqttCommand(Payloads)
  \/ RunScheduled
  \/ LinkLost(1)

MqttSpec == InitPing /\ [][NextMqtt]_vars

\* ------------------------------------- write_health_data, healthcheck.py
health_check_interval == 60

\* the files write_health_data writes, in the order it writes them
HealthFiles == << "heartbeat", "bt", "mqtt" >>

\* one round of the loop of write_health_data, plejd.py lines 246-274:
\* with the health check enabled the three files are written in order
\* until an open fails (fail is the index of the file whose open raises
\* IOError, 0 when none does); mqtt_up is the result of
\* mqtt_client.is_connected(); the round ends in the sleep
write_health_data(files, health_check, connected, pong, mqtt_up, now, fail) ==
  LET bt_status == IF connected /\ pong THEN "connected" ELSE "disconnected"
      mqtt_status == IF mqtt_up THEN "connected" ELSE "disconnected"
      upto == IF ~health_check THEN 0
              ELSE IF fail = 0 THEN Len(HealthFiles) ELSE fail - 1
  IN [bt_status |-> bt_status, mqtt_status |-> mqtt_status,
      written |-> SubSeq(HealthFiles, 1, upto),
      files |-> [heartbeat |-> IF upto >= 1 THEN now ELSE files.heartbeat,
                 bt |-> IF upto >= 2 THEN bt_status ELSE files.bt,
                 mqtt |-> IF upto >= 3 THEN mqtt_status ELSE files.mqtt]]

\* the task of write_health_data wakes from its sleep and runs a round;
\* pong is the result of ping, mqtt_connected that of
\* mqtt_client.is_connected()
WriteHealth ==
  /\ heartbeat_task.state = "running" /\ clock >= heartbeat_task.wake
  /\ \E pong \in (IF is_connected THEN BOOLEAN ELSE {FALSE}),
        mqtt_connected \in BOOLEAN, fail \in 0..Len(HealthFiles) :
       LET r == write_health_data(health_files, heartbeat_task.health_check,
                                  is_connected, pong, mqtt_connected, clock,
                                  fail)
       IN /\ health_files' = r.files
          /\ ev' = [op |-> "write_health", bt_status |-> r.bt_status,
                    mqtt_status |-> r.mqtt_status, written |-> r.written,
                    now |-> clock]
  /\ heartbeat_task' = [heartbeat_task EXCEPT
                          !.wake = clock + health_check_interval]
  /\ UNCHANGED << session, pc, retries, opc, sent, stay, okRun, userDisc, notif,
                  site, tasks, loading, mqtt, clock >>

STATUS_ERR == 1
STATUS_OK == 0

\* is_program_running, healthcheck.py lines 28-62
is_program_running(files, now) ==
  IF files.heartbeat = -1 THEN FALSE
  ELSE now - files.heartbeat < health_check_interval

\* is_blueooth_connected, lines 65-92
is_blueooth_connected(files) ==
  IF files.bt = "absent" THEN FALSE ELSE files.bt = "connected"

\* is_mqtt_connected, lines 95-122: the file it opens, line 111, is
\* health_check_dir + health_check_bt_file
is_mqtt_connected(files) ==
  IF files.bt = "absent" THEN FALSE ELSE files.bt = "connected"

\* healthcheck, lines 125-149
healthcheck(files, now) ==
  IF ~is_program_running(files, now) THEN STATUS_ERR
  ELSE IF ~is_blueooth_connected(files) THEN STATUS_ERR
  ELSE IF ~is_mqtt_connected(files) THEN STATUS_ERR
  ELSE STATUS_OK

\* the health check script runs
Healthcheck ==
  /\ ev' = [op |-> "healthcheck", res |-> healthcheck(health_files, clock),
            files |-> health_files, now |-> clock]
  /\ UNCHANGED << session, pc, retries, opc, sent, stay, okRun, userDisc, notif,
                  app >>

TickSeconds == 30
MaxTicks == 4

\* time passes
Tick ==
  /\ clock < MaxTicks * TickSeconds
  /\ clock' = clock + TickSeconds
  /\ ev' = NoEv
  /\ UNCHANGED << session, pc, retries, opc, sent, stay, okRun, userDisc, notif,
                  site, tasks, loading, mqtt, health_files, heartbeat_task >>

\* the program creates its devices and starts its tasks, the health data
\* are written round by round, and the health check script runs at any
\* time
NextHealth ==
  \/ SiteLoaded(SyncSites)
  \/ CreateDevice
  \/ CreateDevicesReturn
  \/ StartTasks
  \/ WriteHealth
  \/ Healthcheck
  \/ Tick
  \/ LinkLost(1)

HealthSpec == InitPing /\ [][NextHealth]_vars

\* ------------------------------------------------------------------ claims

\* C1: send_command writes a frame to the data channel only when the
\* session's current link has completed the authentication procedure.
C1_SendOnlyWhenAuthenticated ==
  (ev.op = "send_command" /\ ev.io # << >>) => (_client # 0 /\ authed[_client])

\* C2: once disconnect() has been called and the caller has not called
\* connect() since, the keep-alive loop is left at its next wait boundary:
\* when its sleep ends it starts no ping and no reconnect attempt.
C2_LoopEndsAfterDisconnect ==
  [][\A t \in KA :
       (userDisc /\ pc[t] = "sleep" /\ pc'[t] # "sleep") => pc'[t] = "none"]_vars

\* C3: when the attempt that ends is counted (a reconnect attempt made
\* while not connected, or a ping returning false) and brings the count of
\* the inner-loop run to the retry limit, the loop logs the heartbeat
\* timeout, resets retries to 0 and waits again; it does not end while the
\* disconnect flag is not set.
C3_LimitRestartsLoop ==
  [][\A t \in KA :
       ( /\ ev'.op = "heartbeat" /\ ev'.t = t
         /\ pc[t] \notin {"none", "start", "sleep"}
         /\ (ev'.attempt = "connect" \/ ~ev'.ok)
         /\ retries[t] + 1 = Retries
         /\ ~_disconnect )
       => ( /\ ev'.log = "Hearbeat timeout"
            /\ retries'[t] = 0
            /\ pc'[t] = "sleep" )]_vars

C3_Witness ==
  /\ ev.op = "heartbeat" /\ ev.log = "Hearbeat timeout" /\ ev.n = Retries
  /\ ~_disconnect /\ pc[ev.t] = "sleep" /\ retries[ev.t] = 0

\* C4: the heartbeat timeout is logged only when no ping succeeded between
\* the first and the last counted failure of the inner-loop run.
C4_TimeoutOnlyWithoutSuccess ==
  (ev.op = "heartbeat" /\ ev.log = "Hearbeat timeout") => ~ev.okBetween

\* C5: connect never raises: an attempt that fails at any step makes
\* connect return false.
C5_ConnectNeverRaises ==
  (ev.op = "connect" /\ ~ev.entry /\ ev.attempt # "True") => ev.res = "False"

ConnectPcs == {"scan", "open", "auth_w1", "auth_r", "auth_w2"}

\* C6: connect called while is_connected() holds returns true at once and
\* leaves the session untouched (no scan, no link opened, no
\* authentication); called while not connected it starts one _connect
\* attempt, and returns when that attempt returns, with the attempt's
\* result.
C6_ConnectResult ==
  [][ /\ (pc[0] = "idle" /\ ev'.op \in {"connect", "connect_call"} /\ is_connected)
          => ( /\ ev'.op = "connect" /\ ev'.res = "True"
               /\ pc'[0] = "idle" /\ UNCHANGED session )
      /\ (pc[0] = "idle" /\ ev'.op \in {"connect", "connect_call"} /\ ~is_connected)
          => (ev'.op = "connect_call" /\ pc'[0] = "scan" /\ nclients' = nclients)
      /\ (pc[0] \in ConnectPcs /\ pc'[0] \notin ConnectPcs)
          => ( /\ ev'.op = "connect" /\ pc'[0] = "idle"
               /\ (ev'.attempt = "True" => ev'.res = "True")
               /\ (ev'.attempt = "False" => ev'.res = "False") ) ]_vars

C6_Witness == ev.op = "connect" /\ ev.entry /\ ev.res = "True"

\* C7: send_command raises PlejdNotConnectedError when is_connected() is
\* false (whatever the command id), UnsupportedCommandError when connected
\* and the id is not one of the six recognized ids; in both cases no GATT
\* call is made and the session is unchanged.  With a recognized id and a
\* connected session it makes one write to the data channel and the
\* write's failure is the error raised.
RecognizedIds == {200, 152, 151, 33, 27, 22}

C7_SendCommandErrors ==
  [][ ev'.op = "send_command" =>
        /\ ~is_connected =>
              ( /\ ev'.res = "PlejdNotConnectedError" /\ ev'.io = << >>
                /\ UNCHANGED << session, notif, pc >> )
        /\ (is_connected /\ ev'.cmd \notin RecognizedIds) =>
              ( /\ ev'.res = "UnsupportedCommandError" /\ ev'.io = << >>
                /\ UNCHANGED << session, notif, pc >> )
        /\ (is_connected /\ ev'.cmd \in RecognizedIds) =>
              ( /\ ev'.io = << [rw |-> "write", ch |-> "DATA_UUID"] >>
                /\ (ev'.wr = "ok" => ev'.res = "None")
                /\ (ev'.wr = "BleakError" => ev'.res = "PlejdBluetoothError")
                /\ (ev'.wr = "TimeoutError" => ev'.res = "PlejdTimeoutError") ) ]_vars

C7_Witness ==
  /\ ev.op = "send_command" /\ is_connected /\ ev.cmd = 153
  /\ ev.res = "UnsupportedCommandError"

\* C8: ping() returns true iff the write and the read both succeed and the
\* value read is non-empty with first byte (sent + 1) mod 256; in every
\* other case it returns false, and it never raises.
C8_PingResult ==
  ev.op = "ping" =>
    /\ ev.res \in {"True", "False"}
    /\ ev.res = "True" <=>
          ( /\ ev.wr = "None" /\ ev.rd = "None"
            /\ Len(ev.pong) > 0
            /\ ev.pong[1] = (ev.sent + 1) % 256 )

C8_Witness ==
  ev.op = "ping" /\ ev.sent = 255 /\ ev.pong = <<0>> /\ ev.res = "True"

\* C9: on one link the notification handler of the last-data channel is
\* installed at most once.
C9_HandlerInstalledOnce == \A c \in Clients : installs[c] <= 1

\* C10: a notification whose decrypted frame is non-empty makes the handler
\* invoke the callback registered for the address in decrypted byte 0,
\* once, with the whole decrypted frame, and no other callback; with no
\* callback registered for that address it invokes none.  The registry is
\* left unchanged, and on the session's current link the decrypted frame is
\* the frame the peer sent.
C10_DispatchByAddress ==
  [][ (ev'.op = "notification" /\ Len(ev'.dec) > 0) =>
        /\ _callbacks' = _callbacks
        /\ ev'.c = _client => ev'.dec = ev'.plain
        /\ IF \E a \in DOMAIN _callbacks : a = ev'.dec[1]
             THEN ev'.invoked = << [cb |-> _callbacks[ev'.dec[1]], arg |-> ev'.dec] >>
             ELSE ev'.invoked = << >> ]_vars

C10_Witness ==
  /\ ev.op = "notification" /\ ev.plain = <<2, 1, 16, 0, 151, 0>>
  /\ Len(ev.invoked) = 1 /\ ev.invoked[1].arg = ev.plain

\* C11: the registry holds one callback per address; a subscribe made
\* while connected maps its address to the callback it was given, adds no
\* other address and leaves the callback of every other address as it
\* was; no other step changes the registry.
C11_LastWriteWins ==
  [][ IF ev'.op = "subscribe" /\ is_connected
        THEN /\ DOMAIN _callbacks' = DOMAIN _callbacks \cup {ev'.addr}
             /\ _callbacks'[ev'.addr] = ev'.cb
             /\ \A a \in DOMAIN _callbacks \ {ev'.addr} :
                  _callbacks'[a] = _callbacks[a]
        ELSE _callbacks' = _callbacks ]_vars

C11_Witness ==
  /\ ev.op = "subscribe" /\ ev.res = "None"
  /\ ev.prev # 0 /\ ev.prev # ev.cb
  /\ _callbacks[ev.addr] = ev.cb
  /\ Cardinality(DOMAIN _callbacks) = 2

\* C12: subscribe_last_data called while is_connected() is false raises
\* PlejdNotConnectedError, leaves the registry unchanged and makes no
\* start_notify call (no handler is installed).
C12_SubscribeNotConnected ==
  [][ (ev'.op = "subscribe" /\ ~is_connected) =>
        ( /\ ev'.res = "PlejdNotConnectedError"
          /\ ev'.io = << >>
          /\ UNCHANGED notif ) ]_vars

C12_Witness ==
  /\ ev.op = "subscribe" /\ ev.res = "PlejdNotConnectedError"
  /\ ~is_connected
  /\ ev.addr \in DOMAIN _callbacks /\ _callbacks[ev.addr] # ev.cb

PingPcs == {"ping_w", "ping_r"}
AuthPcs == {"auth_w1", "auth_r", "auth_w2"}

\* C13: the handler runs within the step that receives the notification:
\* a notification sent by an address that has a registered callback makes
\* the handler invoke that callback in that step, once, with the frame as
\* sent, before any later notification is received; none is dropped,
\* held back or merged with another.
C13_DeliveredInOrder ==
  [][ ( /\ ev'.op = "notification" /\ Len(ev'.plain) > 0
        /\ ev'.plain[1] \in DOMAIN _callbacks )
      => ( /\ ev'.res = "None"
           /\ ev'.invoked = << [cb |-> _callbacks[ev'.plain[1]],
                                arg |-> ev'.plain] >> ) ]_vars

C13_Witness ==
  /\ ev.op = "notification" /\ ev.plain = <<1, 1, 16, 0, 151, 1>>
  /\ DOMAIN _callbacks = {1, 2}
  /\ ev.invoked = << [cb |-> _callbacks[1], arg |-> ev.plain] >>

\* C14: request/response exchanges on one channel are serialized across
\* tasks: no two tasks have a ping exchange (write, then read) outstanding
\* on the same link at the same time, nor an authentication exchange.
C14_ExchangesSerialized ==
  \A t1, t2 \in AllTasks :
    (t1 # t2 /\ opc[t1] # 0 /\ opc[t1] = opc[t2])
      => ( /\ ~(pc[t1] \in PingPcs /\ pc[t2] \in PingPcs)
           /\ ~(pc[t1] \in AuthPcs /\ pc[t2] \in AuthPcs) )

\* C15: a session holds at most one live link at any time, under every
\* interleaving of connect() calls and keep-alive reconnect attempts.
C15_AtMostOneLink == Cardinality({c \in AllClients : linkUp[c]}) <= 1

\* C16: at most one keep-alive task of the session exists at any time,
\* for any sequence of connect(stay_connected=True) calls.
C16_OneKeepAliveTask == Cardinality({k \in AllKA : pc[k] # "none"}) <= 1

\* C17: no failure inside the keep-alive loop ends it: a reconnect attempt
\* or ping that fails, also with an error raised while opening the link,
\* is caught, and the task goes on to its next retry or wait.
C17_LoopSurvivesFailures ==
  [][\A t \in KA :
       (pc[t] \in ConnectPcs \cup PingPcs /\ ~_disconnect) => pc'[t] # "none"]_vars

\* C18: for every key, address and data the transform applied twice gives
\* the data back, and its output is as long as its input (the empty
\* sequence included).
C18_CipherInvolution ==
  ev.op = "crypt" =>
    /\ ev.twice = ev.data
    /\ Len(ev.once) = Len(ev.data)

C18_Witness ==
  /\ ev.op = "crypt" /\ Len(ev.data) = 17
  /\ ev.once # ev.data /\ ev.twice = ev.data

\* C19: the frame built by _get_cmd_payload has the address in byte 0, the
\* response type big-endian in bytes 1-2, the command id big-endian in
\* bytes 3-4 and the payload bytes from offset 5 on; the decoders' reads
\* of byte 0 and of bytes 3-4 recover the address and the command id.
C19_FrameLayout ==
  ev.op = "frame" =>
    /\ Len(ev.frame) = 5 + Len(ev.hex) \div 2
    /\ ev.frame[1] = ev.addr
    /\ 256 * ev.frame[2] + ev.frame[3] = ev.rt
    /\ 256 * ev.frame[4] + ev.frame[5] = ev.cmd
    /\ \A i \in 1..(Len(ev.hex) \div 2) :
         ev.frame[5 + i] = 16 * ev.hex[2 * i - 1] + ev.hex[2 * i]
    /\ ev.sender = ev.addr
    /\ ev.command = ev.cmd

C19_Witness ==
  /\ ev.op = "frame" /\ ev.addr = 255 /\ ev.cmd = 152 /\ ev.rt = 272
  /\ ev.frame = <<255, 1, 16, 0, 152, 1, 18, 18>>

\* C20: get_plejd_time raises PlejdNotConnectedError without sending when
\* not connected; when connected it first writes a time-update request
\* carrying the request-response flag and then reads the data channel; a
\* failure of the send or of the read reaches the caller; a response that
\* is empty or whose bytes 3-4 are not 0x001B raises
\* UnsupportedCommandError, and every other response returns the instant
\* of the little-endian unsigned 32-bit value at offset 5.
C20_GetPlejdTime ==
  ev.op = "get_plejd_time" =>
    IF ~ev.connected
      THEN ev.res = "PlejdNotConnectedError" /\ ev.io = << >>
    ELSE
      /\ Len(ev.io) >= 1
      /\ ev.io[1] = TimeWrite
      /\ Len(ev.request) = 5
      /\ ev.request[1] = ev.arg.ble_address
      /\ <<ev.request[2], ev.request[3]>> = <<1, 2>>
      /\ <<ev.request[4], ev.request[5]>> = <<0, 27>>
      /\ ev.wr \notin {"None", "skipped"} => ev.res = ev.wr /\ Len(ev.io) = 1
      /\ ev.rd \notin {"None", "skipped"} => ev.res = ev.rd
      /\ (ev.wr = "None" /\ ev.rd = "None") =>
           /\ ev.io = << TimeWrite, TimeRead >>
           /\ IF Len(ev.data) = 0 \/ Len(ev.data) < 5
                   \/ <<ev.data[4], ev.data[5]>> # <<0, 27>>
                THEN ev.res = "UnsupportedCommandError"
                ELSE /\ ev.res = "None"
                     /\ ev.time.lo = ev.data[6] + 256 * ev.data[7]
                     /\ ev.time.hi = ev.data[8] + 256 * ev.data[9]

C22_GetLastData ==
  ev.op = "get_last_data" =>
    IF ~ev.connected
      THEN ev.res = "PlejdNotConnectedError" /\ ev.io = << >>
    ELSE
      /\ ev.io = << TimeRead >>
      /\ ev.rd # "None" => ev.res = ev.rd
      /\ ev.rd = "None" =>
           /\ ev.res = "None"
           /\ Len(ev.data) = Len(ev.encrypted)
           /\ ev.data = _encrypt_decrypt_data(
                          Key, Reverse(PeerAddress(peer[_client])), ev.encrypted)

C22_Witness ==
  /\ ev.op = "get_last_data" /\ ev.res = "None"
  /\ Len(ev.data) = 12 /\ ev.data # ev.encrypted
  /\ <<ev.data[4], ev.data[5]>> = <<0, 27>>

\* the command id a frame carries in its bytes 3-4
FrameId(frame) == 256 * frame[4] + frame[5]

\* C23: for every device category a frame whose command id is not in the
\* category's supported-command set decodes to no result; a light gives no
\* state for a command other than state-change, dim-change or dim2-change.
C23_UnsupportedIgnored ==
  (ev.op = "decode" /\ Len(ev.frame) >= 5
     /\ FrameId(ev.frame) \notin supported_commands(ev.category))
    => ev.res = NoResult

\* C24: for every device category a frame whose bytes 3-4 are the
\* time-update id 0x001B decodes to no result, whatever its length and its
\* other bytes.
C24_TimeUpdateIgnored ==
  (ev.op = "decode" /\ Len(ev.frame) >= 5 /\ FrameId(ev.frame) = 27)
    => ev.res = NoResult

C24_Witness ==
  /\ ev.op = "decode" /\ ev.category = "light"
  /\ ev.frame = <<1, 1, 16, 0, 27, 1, 3, 128, 9>>
  /\ ev.res = NoResult

\* C25: for every device category a frame shorter than 5 bytes, the empty
\* frame included, decodes to no result.
C25_ShortFrameIgnored ==
  (ev.op = "decode" /\ Len(ev.frame) < 5) => ev.res = NoResult

\* C26: a light decodes a frame carrying a supported command to a state
\* that is true exactly when the frame has more than 5 bytes and byte 5 is
\* not zero, and to the brightness of byte 7 when the frame has more than
\* 7 bytes and 0 otherwise.
C26_LightDecode ==
  (ev.op = "decode" /\ ev.category = "light" /\ Len(ev.frame) >= 5
     /\ FrameId(ev.frame) \in {151, 152, 200})
    => /\ ev.res.kind = "BTLightData"
       /\ ev.res.raw_data = ev.frame
       /\ ev.res.state = (Len(ev.frame) > 5 /\ ev.frame[6] # 0)
       /\ ev.res.brightness = IF Len(ev.frame) > 7 THEN ev.frame[8] ELSE 0

C26_Witness ==
  /\ ev.op = "decode" /\ ev.category = "light"
  /\ ev.frame = <<1, 1, 16, 0, 151, 1, 3, 128>>
  /\ ev.res.kind = "BTLightData" /\ ev.res.state /\ ev.res.brightness = 128

\* C27: a trigger decodes a frame carrying a supported command to no
\* result when the frame is shorter than 8 bytes and to the input of byte
\* 6 otherwise.
C27_TriggerDecode ==
  (ev.op = "decode" /\ ev.category = "device_trigger" /\ Len(ev.frame) >= 5
     /\ FrameId(ev.frame) \in {22, 151, 152, 200})
    => IF Len(ev.frame) < 8 THEN ev.res = NoResult
       ELSE /\ ev.res.kind = "BTDeviceTriggerData"
            /\ ev.res.raw_data = ev.frame
            /\ ev.res.input = ev.frame[7]

C27_Witness ==
  /\ ev.op = "decode" /\ ev.category = "device_trigger"
  /\ ev.frame = <<1, 1, 16, 0, 22, 0, 3, 128>>
  /\ ev.res.kind = "BTDeviceTriggerData" /\ ev.res.input = 3

\* C28: when the scan of _connect ends, an empty table makes the attempt
\* return false with no client created and no link opened; a client is
\* only created for a discovered peer whose signal strength no other
\* discovered peer exceeds and no earlier discovered peer equals.
C28_StrongestFirst ==
  [][(pc[0] = "scan" /\ pc'[0] # "scan") =>
       LET q == discovered[0]
       IN IF q = << >>
            THEN /\ pc'[0] = "idle"
                 /\ ev'.op = "connect" /\ ev'.res = "False"
                 /\ nclients' = nclients /\ _client' = _client
                 /\ linkUp' = linkUp
            ELSE pc'[0] = "open" =>
                   \E i \in 1..Len(q) :
                     /\ peer'[_client'] = q[i].device
                     /\ \A j \in 1..Len(q) : q[j].rssi <= q[i].rssi
                     /\ \A j \in 1..(i - 1) : q[j].rssi < q[i].rssi]_vars

C28_Witness ==
  /\ pc[0] = "open"
  /\ discovered[0] = << [device |-> 1, rssi |-> -60], [device |-> 3, rssi |-> -40],
                        [device |-> 2, rssi |-> -40] >>
  /\ peer[_client] = 3

\* C29: disconnect() sets the disconnect flag; with no connected link it
\* returns true and does not call the transport; with a connected link it
\* calls the transport's disconnect once and returns what that call
\* answers.
C29_Disconnect ==
  [][ev'.op = "disconnect" =>
       /\ _disconnect'
       /\ IF is_connected
            THEN /\ ev'.io = << "disconnect" >>
                 /\ ev'.transport \in {"True", "False"}
                 /\ ev'.res = ev'.transport
            ELSE /\ ev'.io = << >>
                 /\ ev'.res = "True"
                 /\ linkUp' = linkUp]_vars

C29_Witness ==
  /\ ev.op = "disconnect" /\ ev.transport = "False" /\ ev.res = "False"
  /\ _disconnect /\ is_connected

C31_Brightness ==
  (ev.op = "light_brightness" /\ ev.supports) =>
    /\ Len(ev.calls) = 1
    /\ ev.calls[1].ble_address = ev.ble_address
    /\ ev.calls[1].command = 152
    /\ ev.calls[1].response_type = 272
    /\ ev.calls[1].hex_str =
         << 0, 1, ev.brightness \div 16, ev.brightness % 16,
            ev.brightness \div 16, ev.brightness % 16 >>
    /\ ev.sendres \in {"None", "PlejdNotConnectedError", "PlejdBluetoothError",
                        "PlejdTimeoutError"}
    /\ ev.res = IF ev.sendres = "None" THEN "True" ELSE "False"

\* C32: start creates the MQTT entity first and the BT device second; a
\* ConnectionError or RuntimeError of the MQTT creation surfaces as
\* MQTTDeviceError, and then the BT device is not created and nothing is
\* subscribed; a BTDeviceError of the BT creation surfaces as
\* BTDeviceError; _create_devices appends the device to its list only when
\* start raised neither of the two.
C32_StartOrder ==
  [][ (ev'.op = "create_device" /\ ev'.started) =>
        LET d == ev'.d
        IN /\ ev'.calls[1] = "_create_mqtt_device"
           /\ Len(ev'.calls) = 2 => ev'.calls[2] = "_create_bt_device"
           /\ ev'.mqtt \in {"ConnectionError", "RuntimeError"} =>
                /\ ev'.res = "MQTTDeviceError"
                /\ ev'.calls = << "_create_mqtt_device" >>
                /\ ~_bt_device'[d]
                /\ ev'.io = << >>
                /\ UNCHANGED notif
           /\ (ev'.mqtt = "ok" /\ ~ev'.connected) => ev'.res = "BTDeviceError"
           /\ combined_devices' # combined_devices =>
                /\ ev'.res \notin {"MQTTDeviceError", "BTDeviceError"}
                /\ combined_devices' = Append(combined_devices, d)
           /\ ev'.res \in {"MQTTDeviceError", "BTDeviceError"} =>
                /\ combined_devices' = combined_devices
                /\ create'.res = "running" ]_vars

C32_Witness ==
  /\ ev.op = "create_device" /\ ev.started /\ ev.d = 2
  /\ ev.mqtt = "ConnectionError" /\ ev.res = "MQTTDeviceError"
  /\ combined_devices = << 1 >> /\ _bt_device[1] /\ ~_bt_device[2]

\* C33: in a clock-sync cycle in which the mesh time was read, a set-time
\* command is sent if and only if the mesh time and the current time
\* differ by more than time_update_threshold; within the threshold no
\* set-time command is sent.
C33_SyncThreshold ==
  (ev.op = "sync_device" /\ ev.got = "None") =>
    LET diff == IF Seconds(ev.plejd) >= ev.now THEN Seconds(ev.plejd) - ev.now
                ELSE ev.now - Seconds(ev.plejd)
    IN (ev.set_calls # << >>) <=> (diff > 10)

\* C34: under the cache policy NO_CACHE a get_site call does not access
\* the cache file and leaves it as it was; the site it returns is the one
\* the API gave, and a failure of the API is raised to the caller.
C34_NoCache ==
  (ev.op = "get_site" /\ ev.policy = "NO_CACHE") =>
    /\ ev.files = << >>
    /\ cache_file = ev.before
    /\ ev.api = "ok" => (ev.res = "None" /\ ev.site.devices = ev.devices)
    /\ ev.api # "ok" => ev.res = ev.api

\* C38: a get_site call of _load_plejd_site that fails with
\* IncorrectCredentialsError, the first call or one inside the retry loop,
\* ends the program without another attempt; the loop goes on only after
\* another PlejdAPIError, and inside the loop it then waits
\* min(API_MAX_RETRY_TIME, 2^retry_count) before the next attempt.
C38_NoRetryOnCredentials ==
  ev.op = "get_site" =>
    /\ ev.res = "IncorrectCredentialsError" => load.pc = "exit"
    /\ load.pc = "retry" =>
         /\ ev.res \in {"PlejdAPIError", "UnknownResponseError",
                        "UnsupportedDeviceTypeError", "CacheFileError"}
         /\ ev.in_loop =>
              ev.backoff_time = IF load.retry_count >= 3 THEN 8
                                ELSE pow2(load.retry_count)

\* C35: whenever connect() returns true, the session's current link has
\* completed the authentication procedure without error, also when the
\* call follows an attempt that opened the link and failed to
\* authenticate.
C35_ConnectTrueAuthenticated ==
  (ev.op = "connect" /\ ev.res = "True") => (_client # 0 /\ authed[_client])

\* C36: from a disconnect() call until the caller's next connect() call
\* the disconnect flag stays set and no keep-alive task starts a scan,
\* opens a link or starts an authentication.
C36_NoReconnectAfterDisconnect ==
  [][ (userDisc /\ userDisc') =>
        /\ _disconnect'
        /\ \A t \in KA : pc'[t] \in ConnectPcs => pc'[t] = pc[t] ]_vars

\* C37: once a callback has been registered for an address through a
\* successful subscribe, every notification that address sends on the
\* session's current, authenticated link reaches that callback, also on a
\* link the keep-alive loop established after the first one was lost.
C37_CallbacksSurviveReconnect ==
  [][ ( /\ ev'.op \in {"notification", "unnotified"}
        /\ ev'.c = _client /\ authed[_client]
        /\ \E c \in Clients : installs[c] > 0
        /\ Len(ev'.plain) > 0 /\ ev'.plain[1] \in DOMAIN _callbacks )
      => ev'.invoked = << [cb |-> _callbacks[ev'.plain[1]],
                           arg |-> ev'.plain] >> ]_vars


\* C39: on an MQTT command for a light the MQTT entity publishes a state
\* only once the corresponding BT operation has returned true; while the
\* operation has not completed, or when it returned false, nothing is
\* published.
C39_PublishedOnlyAfterTrue ==
  (ev.op \in {"mqtt_command", "bt_operation"} /\ ev.publish # << >>)
    => ev.bt_res = "True"


\* C40: healthcheck returns STATUS_OK exactly when the heartbeat file
\* holds a time less than health_check_interval old, the bluetooth status
\* file's first word is "connected" and the MQTT status file's first word
\* is "connected"; so it returns STATUS_ERR whenever the MQTT status file
\* holds "disconnected".
C40_HealthcheckIff ==
  ev.op = "healthcheck" =>
    (ev.res = STATUS_OK <=>
       /\ ev.files.heartbeat # -1
       /\ ev.now - ev.files.heartbeat < health_check_interval
       /\ ev.files.bt = "connected"
       /\ ev.files.mqtt = "connected")

====
